---- MODULE Spec2Model ----
(***************************************************************************)
(* A model of the flatfile key/value store (vedranvuk/flatfile): the cell  *)
(* catalogue (header: pot, bin, mem, key index, dirty map, header file),   *)
(* the stream of pages, and the FlatFile facade with its optional mirror   *)
(* and intents stores.                                                     *)
(*                                                                         *)
(* A store is a record.  Cells are heap objects (Go *cell): the field      *)
(* cells maps an address to the cell's fields, and pot, keys, bin, mem and *)
(* dirty hold addresses.  Files are part of the record too (hmagic, hrecs, *)
(* pfiles, ofile): they survive a process stop, the other fields do not.   *)
(***************************************************************************)
EXTENDS Integers, Sequences, FiniteSets, TLC

\* ------------------------------------------------------------------ bounds
\* Number of facade calls in one behaviour.
MaxOps == 4

\* ------------------------------------------------------- program constants
StateNormal == 0
StateDeleted == 1
StateReused == 2

\* ------------------------------------------------------------------ inputs
Keys == {"a", "b"}
\* Blobs: byte sequences, the empty blob included.
Vals == {<<>>, <<1>>, <<2, 2>>}

\* Errors (errors.go).  NoErr is a nil error; ErrPanic is a Go run-time panic
\* (index out of range, nil dereference, panic("BzZzz...")); ErrIO is any
\* wrapped I/O or propagation error.
NoErr == "nil"
ErrPanic == "panic"
ErrIO == "ErrFlatFile"
ErrInvalidKey == "ErrInvalidKey"
ErrKeyNotFound == "ErrKeyNotFound"
ErrDuplicateKey == "ErrDuplicateKey"
ErrBlobTooBig == "ErrBlobTooBig"
ErrImmutableFile == "ErrImmutableFile"
ErrChecksumFailed == "ErrChecksumFailed"

\* ----------------------------------------------------------------- helpers
\* map[k] = v and delete(map, k) on a Go map.
MapPut(f, k, v) == [x \in (DOMAIN f) \cup {k} |-> IF x = k THEN v ELSE f[x]]
MapDel(f, k) == [x \in (DOMAIN f) \ {k} |-> f[x]]
EmptyMap == [x \in {} |-> 0]

Max(a, b) == IF a > b THEN a ELSE b

\* x := v, and then F(x): a local variable that is assigned once.
With(v, F(_)) == F(v)

RemoveAt(s, i) == [n \in 1..(Len(s) - 1) |-> IF n < i THEN s[n] ELSE s[n + 1]]

\* The elements of a set of integers in ascending order.
RECURSIVE SortedSeq(_)
SortedSeq(s) ==
  IF s = {} THEN <<>>
  ELSE LET m == CHOOSE x \in s : \A y \in s : x <= y
       IN <<m>> \o SortedSeq(s \ {m})

\* All orders in which a Go map iteration may visit the set s.
Orders(s) ==
  {p \in [1..Cardinality(s) -> s] : \A i, j \in 1..Cardinality(s) : i # j => p[i] # p[j]}

\* A checksum that is the same for all blobs.
ChecksumBlind(b) == 0

\* hash/crc32.ChecksumIEEE.  The checksum of the empty blob is 0.  CRC-32 is
\* injective and non-zero over the non-empty blobs of fewer than four small
\* bytes; the polynomial below stands for it with these same properties (its
\* values here stay far below 2^32).
RECURSIVE ChecksumIEEE(_)
ChecksumIEEE(b) ==
  IF Len(b) = 0 THEN 0
  ELSE ChecksumIEEE(SubSeq(b, 1, Len(b) - 1)) * 7 + b[Len(b)] + 1

\* ------------------------------------------------------------------- cell
\* A cell as newly made by &cell{}.  cache is <<>> for a nil slice and
\* <<blob>> for a slice holding blob.
NewCell ==
  [CellID |-> 0, PageIndex |-> 0, Offset |-> 0, Allocated |-> 0, Used |-> 0,
   CellState |-> StateNormal, CRC32 |-> 0, cache |-> <<>>, key |-> ""]

BlobEndPos(c) == c.Offset + c.Allocated

Cached(c) == c.cache # <<>>

\* cell.write: the record appended to the header file carries the key and
\* the exported fields; the cache is not serialised.
CellRecord(c) ==
  [key |-> c.key, CellID |-> c.CellID, PageIndex |-> c.PageIndex, Offset |-> c.Offset,
   Allocated |-> c.Allocated, Used |-> c.Used, CellState |-> c.CellState, CRC32 |-> c.CRC32]

\* header.load's body for one record: key read, then UnmarshalBinary.
CellOfRecord(r) ==
  [CellID |-> r.CellID, PageIndex |-> r.PageIndex, Offset |-> r.Offset,
   Allocated |-> r.Allocated, Used |-> r.Used, CellState |-> r.CellState,
   CRC32 |-> r.CRC32, cache |-> <<>>, key |-> r.key]

\* -------------------------------------------------------------------- bin
\* sort.Search(n, f) with f(h) = allocs[h] >= min, on 0-based indices i..j.
RECURSIVE SearchAlloc(_, _, _, _)
SearchAlloc(allocs, min, i, j) ==
  IF i < j
  THEN LET h == (i + j) \div 2
       IN IF ~(allocs[h + 1] >= min)
          THEN SearchAlloc(allocs, min, h + 1, j)
          ELSE SearchAlloc(allocs, min, i, h)
  ELSE i

BinAllocs(S) == [n \in 1..Len(S.bin) |-> S.cells[S.bin[n]].Allocated]

\* bin.Trash.  ns := append(b.cells[:i], c) writes c over b.cells[i] in the
\* shared backing array, and append(ns, b.cells[i+1:]...) copies the tail
\* onto itself: for i < len the cell at i is replaced, not shifted.
BinTrash(S, a) ==
  With(SearchAlloc(BinAllocs(S), S.cells[a].Allocated, 0, Len(S.bin)), LAMBDA i :
    IF Len(S.bin) = 0
    THEN [S EXCEPT !.bin = <<a>>, !.binids = MapPut(@, S.cells[a].CellID, a)]
    ELSE [S EXCEPT !.bin = IF i < Len(S.bin) THEN [@ EXCEPT ![i + 1] = a]
                                             ELSE Append(@, a),
                   !.binids = MapPut(@, S.cells[a].CellID, a)])

\* bin.Recycle: c = 0 stands for the empty cell &cell{}.
BinRecycle(S, minsize) ==
  With(SearchAlloc(BinAllocs(S), minsize, 0, Len(S.bin)), LAMBDA i :
    IF i >= Len(S.bin) \/ S.cells[S.bin[i + 1]].Allocated < minsize
    THEN [S |-> S, c |-> 0]
    ELSE [S |-> [S EXCEPT !.bin = RemoveAt(@, i + 1),
                          !.binids = MapDel(@, S.cells[S.bin[i + 1]].CellID)],
          c |-> S.bin[i + 1]])

\* -------------------------------------------------------------------- pot
\* pot.New.  panic: p.cells[p.maxid] is nil when maxid is not in the pot.
PotNew(S) ==
  LET bad == S.maxid > 0 /\ S.maxid \notin DOMAIN S.pot
      off == IF S.maxid > 0 /\ ~bad THEN BlobEndPos(S.cells[S.pot[S.maxid]]) ELSE 0
      a == S.nextAddr
      c == [NewCell EXCEPT !.CellState = StateNormal, !.Offset = off, !.CellID = S.maxid + 1]
  IN [S |-> [S EXCEPT !.cells = MapPut(@, a, c), !.nextAddr = a + 1,
                      !.maxid = @ + 1, !.pot = MapPut(@, S.maxid + 1, a)],
      c |-> a, panic |-> bad]

\* pot.Mask
PotMask(S, a) ==
  LET c == S.cells[a]
  IN [S EXCEPT !.maxid = IF c.CellID > @ THEN c.CellID ELSE @,
               !.pot = MapPut(@, c.CellID, a)]

\* pot.Destroy
PotDestroy(S, a) ==
  LET c == S.cells[a]
  IN IF c.CellID \notin DOMAIN S.pot THEN S
     ELSE [S EXCEPT !.pot = MapDel(@, c.CellID),
                    !.maxid = IF c.CellID = @ THEN @ - 1 ELSE @]

\* -------------------------------------------------------------------- mem
\* The eviction loop of mem.Push.
RECURSIVE MemEvict(_, _, _)
MemEvict(S, used, maxalloc) ==
  IF Len(S.memq) = 0 THEN S
  ELSE IF S.memsize - used < maxalloc THEN S
  ELSE LET f == Head(S.memq)
       IN MemEvict([S EXCEPT !.memq = Tail(@),
                             !.memkeys = MapDel(@, S.cells[f].key),
                             !.memsize = @ - S.cells[f].Used,
                             !.cells[f].cache = <<>>],
                   used, maxalloc)

IndexOf(s, x) == CHOOSE i \in 1..Len(s) : s[i] = x /\ \A j \in 1..(i - 1) : s[j] # x

\* mem.Push
MemPush(S, a, maxalloc) ==
  LET k == S.cells[a].key
  IN IF k \in DOMAIN S.memkeys
     THEN LET e == S.memkeys[k]
          IN [S EXCEPT !.memq = Append(RemoveAt(@, IndexOf(@, e)), e)]
     ELSE With(MemEvict(S, S.cells[a].Used, maxalloc), LAMBDA T :
            [T EXCEPT !.memkeys = MapPut(@, k, a),
                      !.memq = Append(@, a),
                      !.memsize = @ + T.cells[a].Used])

\* mem.Remove
MemRemove(S, a) ==
  LET k == S.cells[a].key
  IN IF k \in DOMAIN S.memkeys
     THEN LET e == S.memkeys[k]
          IN [S EXCEPT !.memsize = @ - S.cells[e].Used,
                       !.memq = RemoveAt(@, IndexOf(@, e)),
                       !.cells[a].cache = <<>>,
                       !.memkeys = MapDel(@, k)]
     ELSE S

\* ------------------------------------------------------------------- page
\* os.File.Write at offset off: a hole before off reads as zeros.
WriteAt(f, off, data) ==
  IF Len(data) = 0 THEN f
  ELSE [i \in 1..Max(Len(f), off + Len(data)) |->
          IF i > off /\ i <= off + Len(data) THEN data[i - off]
          ELSE IF i <= Len(f) THEN f[i] ELSE 0]

\* os.File.Truncate
Truncate(f, n) == [i \in 1..n |-> IF i <= Len(f) THEN f[i] ELSE 0]

\* A page.Put that writes nothing.
PagePutSkipped(f, c, blob, zeropad) == f

\* page.Put: the blob, followed by zeros up to c.Allocated when a reused
\* cell is to be padded, is written at c.Offset.
PagePut(f, c, blob, zeropad) ==
  WriteAt(f, c.Offset,
          IF zeropad /\ c.CellState # StateNormal
          THEN blob \o [i \in 1..(c.Allocated - c.Used) |-> 0]
          ELSE blob)

\* page.Get: Seek, then one Read into make([]byte, c.Used).  A Read of no
\* bytes succeeds; a Read at or past the end of file fails with io.EOF; a
\* short Read leaves the tail of the buffer zero and reports no error.
\* PageRead is the Read, from file position pos.
PageRead(f, pos, c) ==
  LET avail == Len(f) - pos
  IN IF c.Used = 0 THEN [blob |-> <<>>, err |-> NoErr]
     ELSE IF avail <= 0 THEN [blob |-> <<>>, err |-> ErrIO]
     ELSE [blob |-> [i \in 1..c.Used |-> IF i <= avail THEN f[pos + i] ELSE 0],
           err |-> NoErr]

\* ----------------------------------------------------------------- stream
\* A newPage that never preallocates.
NewPageFileKept(S, preallocSize, prealloc) ==
  IF S.npages + 1 <= Len(S.pfiles) THEN S.pfiles[S.npages + 1] ELSE <<>>

\* newPage, called by stream.addNewPage for the file with index len(s.pages):
\* O_CREATE keeps an existing file; Truncate sets its length.
NewPageFile(S, preallocSize, prealloc) ==
  LET idx == S.npages + 1
      old == IF idx <= Len(S.pfiles) THEN S.pfiles[idx] ELSE <<>>
  IN IF ~prealloc \/ preallocSize <= 0 THEN old ELSE Truncate(old, preallocSize)

\* stream.addNewPage
AddNewPage(S, preallocSize, prealloc) ==
  [S EXCEPT !.npages = @ + 1,
            !.pfiles = [i \in 1..Max(Len(@), S.npages + 1) |->
                          IF i = S.npages + 1 THEN NewPageFile(S, preallocSize, prealloc)
                          ELSE @[i]]]

\* stream.Open: opens, without O_CREATE, the next maxPageID page files.
StreamOpen(S, maxPageID) ==
  IF S.npages + maxPageID > Len(S.pfiles)
  THEN [S |-> [S EXCEPT !.npages = Len(S.pfiles)], err |-> ErrIO]
  ELSE [S |-> [S EXCEPT !.npages = @ + maxPageID], err |-> NoErr]

\* A GetCellPage that puts every new cell on the last page, at the offset
\* pot.New gave it.
GetCellPageNoLimit(S, a, pageSizeLimit, prealloc, failpage) ==
  IF S.cells[a].CellState # StateNormal
  THEN [S |-> S, page |-> S.cells[a].PageIndex, err |-> NoErr]
  ELSE With(IF S.npages = 0 THEN AddNewPage(S, pageSizeLimit, prealloc) ELSE S, LAMBDA S1 :
         [S |-> [S1 EXCEPT !.cells[a].PageIndex = S1.npages - 1],
          page |-> S1.npages - 1, err |-> NoErr])

\* stream.GetCellPage.  page is the 0-based index into s.pages.  failpage
\* makes the first addNewPage it attempts fail.
GetCellPage(S, a, pageSizeLimit, prealloc, failpage) ==
  LET c == S.cells[a]
      first == S.npages - 1 < 0
      over == pageSizeLimit > 0 /\ c.Offset + c.Allocated >= pageSizeLimit
  IN IF c.CellState # StateNormal
     THEN IF c.PageIndex < 0 \/ c.PageIndex >= S.npages
          THEN [S |-> S, page |-> -1, err |-> ErrPanic]
          ELSE [S |-> S, page |-> c.PageIndex, err |-> NoErr]
     ELSE IF failpage /\ first THEN [S |-> S, page |-> -1, err |-> ErrIO]
     ELSE With(IF first THEN AddNewPage(S, pageSizeLimit, prealloc) ELSE S, LAMBDA S1 :
            IF failpage /\ over THEN [S |-> S1, page |-> -1, err |-> ErrIO]
            ELSE With(IF over THEN AddNewPage(S1, pageSizeLimit, prealloc) ELSE S1, LAMBDA S2 :
                   [S |-> [S2 EXCEPT !.cells[a].Offset = IF over THEN 0 ELSE @,
                                     !.cells[a].PageIndex = S2.npages - 1],
                    page |-> S2.npages - 1, err |-> NoErr]))

\* stream.Close
StreamClose(S) == [S EXCEPT !.npages = 0]

\* ----------------------------------------------------------------- header
\* hdr, the header file signature F1 47 F1 13.
HdrMagic == <<241, 71, 241, 19>>

\* A Select that cuts the allocation of a recycled cell down to the size
\* asked for.
SelectShrinking(S, reuse, size) ==
  With(IF reuse THEN BinRecycle(S, size) ELSE [S |-> S, c |-> 0], LAMBDA r :
    IF r.c # 0
    THEN [S |-> [r.S EXCEPT !.cells[r.c].CellState = StateReused,
                            !.cells[r.c].Used = size, !.cells[r.c].Allocated = size],
          c |-> r.c, panic |-> FALSE]
    ELSE With(PotNew(S), LAMBDA n :
           [S |-> [n.S EXCEPT !.cells[n.c].Used = size, !.cells[n.c].Allocated = size],
            c |-> n.c, panic |-> n.panic]))

\* header.Select.  After header.Close h.trash is nil and Recycle
\* dereferences it.
Select(S, reuse, size) ==
  IF reuse /\ ~S.hopen THEN [S |-> S, c |-> 0, panic |-> TRUE]
  ELSE With(IF reuse THEN BinRecycle(S, size) ELSE [S |-> S, c |-> 0], LAMBDA r :
         LET alloc == IF r.c = 0 THEN 0 ELSE S.cells[r.c].Allocated
             state == IF r.c = 0 THEN StateNormal ELSE S.cells[r.c].CellState
         IN IF reuse /\ alloc >= size
            THEN IF state # StateDeleted
                 THEN [S |-> r.S, c |-> r.c, panic |-> TRUE]
                 ELSE [S |-> [r.S EXCEPT !.cells[r.c].CellState = StateReused,
                                         !.cells[r.c].Used = size],
                       c |-> r.c, panic |-> FALSE]
            ELSE With(PotNew(S), LAMBDA n :
                   [S |-> [n.S EXCEPT !.cells[n.c].Used = size, !.cells[n.c].Allocated = size],
                    c |-> n.c, panic |-> n.panic]))

\* header.Use
Use(S, a) == [S EXCEPT !.keys = MapPut(@, S.cells[a].key, a)]

\* An Update that never writes: the cell is only marked dirty.
UpdateDeferred(S, a, immediate, failhdr) ==
  [S |-> [S EXCEPT !.dirty = MapPut(@, S.cells[a].CellID, a)], err |-> NoErr]

\* header.Update; without immediate it is header.Endirty.  failhdr makes
\* the append fail (nothing is written).
Update(S, a, immediate, failhdr) ==
  IF immediate
  THEN IF failhdr THEN [S |-> S, err |-> ErrIO]
       ELSE [S |-> [S EXCEPT !.hrecs = Append(@, CellRecord(S.cells[a]))], err |-> NoErr]
  ELSE [S |-> [S EXCEPT !.dirty = MapPut(@, S.cells[a].CellID, a)], err |-> NoErr]

\* header.Cache.  header.Destroy, header.UnCache and header.Trash are
\* PotDestroy, MemRemove and BinTrash.
Cache(S, a, val, limit) == MemPush([S EXCEPT !.cells[a].cache = <<val>>], a, limit)

\* header.Flush: the dirty cells are appended; their order is that of a Go
\* map iteration, which no later load can observe (one record per cell id),
\* so they are written in ascending id order.
Flush(S) ==
  IF DOMAIN S.dirty = {} THEN S
  ELSE LET ids == SortedSeq(DOMAIN S.dirty)
       IN [S EXCEPT !.hrecs = @ \o [i \in 1..Len(ids) |-> CellRecord(S.cells[S.dirty[ids[i]]])],
                    !.dirty = EmptyMap]

\* header.Close: flush, close the file, drop keys, dirty, trash and cache.
\* The pot is dropped at the next header.Open.
HeaderClose(S) ==
  [Flush(S) EXCEPT !.keys = EmptyMap, !.dirty = EmptyMap, !.bin = <<>>, !.binids = EmptyMap,
                   !.memq = <<>>, !.memkeys = EmptyMap, !.memsize = 0, !.hopen = FALSE]

\* A save that writes no record.
HeaderSaveNothing(S) == S

\* header.save
HeaderSave(S) ==
  LET ids == SortedSeq(DOMAIN S.pot)
  IN [S EXCEPT !.hrecs = @ \o [i \in 1..Len(ids) |-> CellRecord(S.cells[S.pot[ids[i]]])]]

\* The replay loop of header.load: each record becomes a new cell, masked
\* into the pot.  A masked cell replaces the one with the same id, which
\* nothing refers to any more: the cell with id i lives at address i.
RECURSIVE Replay(_, _)
Replay(S, n) ==
  IF n > Len(S.hrecs) THEN S
  ELSE LET c == CellOfRecord(S.hrecs[n])
       IN Replay(PotMask([S EXCEPT !.cells = MapPut(@, c.CellID, c)], c.CellID), n + 1)

\* The pot walk of header.load over the cell ids in the order seq.
RECURSIVE LoadWalk(_, _)
LoadWalk(S, seq) ==
  IF seq = <<>> THEN S
  ELSE LET a == S.pot[Head(seq)]
           c == S.cells[a]
       IN LoadWalk(IF c.CellState = StateDeleted THEN BinTrash(S, a)
                   ELSE [S EXCEPT !.keys = MapPut(@, c.key, a)],
                   Tail(seq))

\* The order of the pot walk: ord is any sequence of cell ids; the ids it
\* names are visited in its order, the others after them.
WalkOrder(ids, ord) ==
  SelectSeq(ord, LAMBDA x : x \in ids) \o SortedSeq(ids \ {ord[i] : i \in 1..Len(ord)})

MaxPage(S) ==
  LET ps == {S.cells[S.pot[i]].PageIndex : i \in DOMAIN S.pot} \cup {0}
  IN CHOOSE m \in ps : \A x \in ps : x <= m

\* header.Open followed by header.load.
HeaderOpen(S, compactheader, ord) ==
  With([S EXCEPT !.hmagic = HdrMagic, !.cells = EmptyMap, !.nextAddr = 1,
                 !.pot = EmptyMap, !.maxid = 0, !.keys = EmptyMap, !.dirty = EmptyMap,
                 !.bin = <<>>, !.binids = EmptyMap,
                 !.memq = <<>>, !.memkeys = EmptyMap, !.memsize = 0], LAMBDA S0 :
    IF S0.hmagic # HdrMagic
    THEN [S |-> S0, lastpage |-> 0, err |-> ErrIO]
    ELSE With(Replay(S0, 1), LAMBDA R :
           With(LoadWalk([R EXCEPT !.nextAddr = R.maxid + 1], WalkOrder(DOMAIN R.pot, ord)),
                LAMBDA S2 :
                  [S |-> [(IF compactheader THEN HeaderSave([S2 EXCEPT !.hrecs = <<>>]) ELSE S2)
                            EXCEPT !.hopen = TRUE],
                   lastpage |-> MaxPage(S2), err |-> NoErr])))

\* --------------------------------------------------------------- FlatFile
\* NewOptions / Options.init, with the fields the model draws at Init.
DefaultOptions ==
  [MirrorDir |-> "", CRC |-> TRUE, MaxCacheMemory |-> 0, CachedWrites |-> FALSE,
   MaxPageSize |-> 0, PreallocatePages |-> TRUE, PersistentHeader |-> TRUE,
   Immutable |-> FALSE, ZeroPadDeleted |-> TRUE, CompactHeader |-> TRUE,
   UseIntents |-> FALSE, utility |-> FALSE]

\* A directory with no file in it, and the FlatFile struct before load.
\* mirror and intents are <<>> for a nil *FlatFile and <<store>> otherwise.
EmptyStore ==
  [opt |-> DefaultOptions, hopen |-> FALSE,
   cells |-> EmptyMap, nextAddr |-> 1, pot |-> EmptyMap, maxid |-> 0,
   keys |-> EmptyMap, bin |-> <<>>, binids |-> EmptyMap, dirty |-> EmptyMap,
   memq |-> <<>>, memkeys |-> EmptyMap, memsize |-> 0, npages |-> 0,
   hmagic |-> <<>>, hrecs |-> <<>>, pfiles |-> <<>>, ofile |-> <<>>,
   mirror |-> <<>>, intents |-> <<>>]

\* A put that leaves its cell as it is when it fails.
UndoPutCellSkipped(S, a) == S

\* undoputcell, the closure of FlatFile.put
UndoPutCell(S, a) ==
  IF S.cells[a].CellState = StateNormal
  THEN PotDestroy(S, a)
  ELSE BinTrash([MemRemove(S, a) EXCEPT !.cells[a].CRC32 = 0], a)

\* FlatFile.put.  fail names the I/O call that fails, if one does.
put(S, key, val, fail) ==
  IF key \in DOMAIN S.keys THEN [S |-> S, err |-> ErrDuplicateKey]
  ELSE IF S.opt.MaxPageSize > 0 /\ Len(val) > S.opt.MaxPageSize
  THEN [S |-> S, err |-> ErrBlobTooBig]
  ELSE With(Select(S, ~S.opt.Immutable, Len(val)), LAMBDA sel :
    IF sel.panic THEN [S |-> sel.S, err |-> ErrPanic]
    ELSE
      LET a == sel.c
          S1 == [sel.S EXCEPT !.cells[a].key = key,
                              !.cells[a].CRC32 = IF S.opt.CRC THEN ChecksumIEEE(val) ELSE @]
      IN With(GetCellPage(IF S.opt.MaxCacheMemory > 0 /\ S.opt.CachedWrites /\ ~S.opt.utility
                          THEN Cache(S1, a, val, S.opt.MaxCacheMemory)
                          ELSE S1,
                          a, S.opt.MaxPageSize, S.opt.PreallocatePages, fail = "page"),
              LAMBDA gp :
        IF gp.err = ErrPanic THEN [S |-> gp.S, err |-> ErrPanic]
        ELSE IF gp.err # NoErr THEN [S |-> UndoPutCell(gp.S, a), err |-> ErrIO]
        ELSE IF fail = "write" THEN [S |-> UndoPutCell(gp.S, a), err |-> ErrIO]
        ELSE With(Update([gp.S EXCEPT !.pfiles[gp.page + 1] =
                                        PagePut(@, gp.S.cells[a], val, S.opt.ZeroPadDeleted)],
                         a, S.opt.PersistentHeader, fail = "header"),
                  LAMBDA up :
               IF up.err # NoErr THEN [S |-> UndoPutCell(up.S, a), err |-> ErrIO]
               ELSE [S |-> Use(up.S, a), err |-> NoErr])))

\* copy(make([]byte, n), src)
CopyN(n, src) == [i \in 1..n |-> IF i <= Len(src) THEN src[i] ELSE 0]

\* FlatFile.get, where the Read of page.Get finds the page file at position
\* pos: the one its Seek has set, c.Offset, unless another Seek came between
\* the two.
getAt(S, key, cache, pos) ==
  IF key \notin DOMAIN S.keys THEN [S |-> S, blob |-> <<>>, err |-> ErrKeyNotFound]
  ELSE
    LET a == S.keys[key]
        c == S.cells[a]
    IN With(IF Cached(c) THEN [blob |-> CopyN(c.Used, c.cache[1]), err |-> NoErr]
            ELSE IF c.PageIndex < 0 \/ c.PageIndex >= S.npages
            THEN [blob |-> <<>>, err |-> ErrPanic]
            ELSE PageRead(S.pfiles[c.PageIndex + 1], pos, c),
            LAMBDA pg :
         IF pg.err # NoErr THEN [S |-> S, blob |-> <<>>, err |-> pg.err]
         ELSE IF ~Cached(c) /\ S.opt.CRC /\ c.CRC32 # 0 /\ ChecksumIEEE(pg.blob) # c.CRC32
         THEN [S |-> S, blob |-> <<>>, err |-> ErrChecksumFailed]
         ELSE IF ~cache \/ S.opt.utility \/ S.opt.MaxCacheMemory <= 0
         THEN [S |-> S, blob |-> pg.blob, err |-> NoErr]
         ELSE [S |-> Cache([S EXCEPT !.cells[a].cache =
                                       IF Cached(c) THEN @ ELSE <<CopyN(c.Used, pg.blob)>>],
                           a, pg.blob, S.opt.MaxCacheMemory),
               blob |-> pg.blob, err |-> NoErr])

\* FlatFile.get
get(S, key, cache) ==
  getAt(S, key, cache, IF key \in DOMAIN S.keys THEN S.cells[S.keys[key]].Offset ELSE 0)

\* FlatFile.delete
delete(S, key, failhdr) ==
  IF key \notin DOMAIN S.keys THEN [S |-> S, err |-> ErrKeyNotFound]
  ELSE
    LET a == S.keys[key]
        S1 == [S EXCEPT !.keys = MapDel(@, key)]
        S2 == BinTrash(MemRemove(S1, a), a)
        S3 == [S2 EXCEPT !.cells[a].key = "", !.cells[a].CRC32 = 0,
                         !.cells[a].CellState = StateDeleted]
    IN Update(S3, a, S.opt.PersistentHeader, failhdr)

\* A Get that looks the key up without testing its length.
GetKeyless(S, key) == get(S, key, FALSE)

\* FlatFile.Get
Get(S, key) ==
  IF Len(key) = 0 THEN [S |-> S, blob |-> <<>>, err |-> ErrInvalidKey]
  ELSE get(S, key, FALSE)

\* header.Keys, as a set.
HeaderKeys(S) == DOMAIN S.keys

\* FlatFile.Len
FFLen(S) == Cardinality(DOMAIN S.keys)

\* A caller that takes the failure of a nested call for a success.
WrapDropped(err) == NoErr

\* The error a caller gets from a nested call: a panic unwinds, any other
\* error is wrapped by ErrFlatFile.Errorf.
Wrap(err) == IF err = ErrPanic THEN ErrPanic ELSE ErrIO

\* The I/O call that fails in ff.mirror.Put when fail names one of the
\* mirror.
MirrorFail(fail) ==
  CASE fail = "mirror page" -> "page"
    [] fail = "mirror write" -> "write"
    [] fail = "mirror header" -> "header"
    [] OTHER -> "none"

\* FlatFile.Put
RECURSIVE Put(_, _, _, _)
Put(S, key, val, fail) ==
  IF Len(key) = 0 THEN [S |-> S, err |-> ErrInvalidKey]
  ELSE With(put(S, key, val, fail), LAMBDA r :
    IF r.err # NoErr THEN r
    ELSE IF r.S.mirror = <<>> THEN r
    ELSE With(Put(r.S.mirror[1], key, val, MirrorFail(fail)), LAMBDA m :
           [S |-> [r.S EXCEPT !.mirror = <<m.S>>],
            err |-> IF m.err = NoErr THEN NoErr ELSE Wrap(m.err)]))

\* A Delete that does not look at Options.Immutable.
RECURSIVE DeleteUnguarded(_, _, _)
DeleteUnguarded(S, key, failhdr) ==
  IF Len(key) = 0 THEN [S |-> S, err |-> ErrInvalidKey]
  ELSE With(delete(S, key, failhdr), LAMBDA r :
    IF r.err # NoErr THEN r
    ELSE IF r.S.mirror = <<>> THEN r
    ELSE With(DeleteUnguarded(r.S.mirror[1], key, FALSE), LAMBDA m :
           [S |-> [r.S EXCEPT !.mirror = <<m.S>>],
            err |-> IF m.err = NoErr THEN NoErr ELSE ErrIO]))

\* FlatFile.Delete
RECURSIVE Delete(_, _, _)
Delete(S, key, failhdr) ==
  IF S.opt.Immutable THEN [S |-> S, err |-> ErrImmutableFile]
  ELSE IF Len(key) = 0 THEN [S |-> S, err |-> ErrInvalidKey]
  ELSE With(delete(S, key, failhdr), LAMBDA r :
    IF r.err # NoErr THEN r
    ELSE IF r.S.mirror = <<>> THEN r
    ELSE With(Delete(r.S.mirror[1], key, FALSE), LAMBDA m :
           [S |-> [r.S EXCEPT !.mirror = <<m.S>>],
            err |-> IF m.err = NoErr THEN NoErr ELSE Wrap(m.err)]))

\* The places in Modify where the process may be stopped.
ModifyStops == {"none", "afterIntent", "afterDelete", "afterPut", "afterUnintent"}
ErrStopped == "stopped"

\* FlatFile.Modify.  A method call on the nil ff.intents dereferences nil at
\* ff.mutex.Lock().  stop names the place where the process is stopped; fail
\* is the I/O failure of the inner put.  var blob []byte stays nil without
\* intents.
RECURSIVE Modify(_, _, _, _, _)
Modify(S, key, val, fail, stop) ==
  IF S.opt.Immutable THEN [S |-> S, err |-> ErrImmutableFile]
  ELSE IF Len(key) = 0 THEN [S |-> S, err |-> ErrInvalidKey]
  ELSE IF key \notin DOMAIN S.keys THEN [S |-> S, err |-> ErrKeyNotFound]
  ELSE IF S.opt.MaxPageSize > 0 /\ Len(val) > S.opt.MaxPageSize
  THEN [S |-> S, err |-> ErrBlobTooBig]
  ELSE With(IF ~S.opt.UseIntents THEN [blob |-> <<>>, err |-> NoErr]
            ELSE IF Cached(S.cells[S.keys[key]])
            THEN [blob |-> S.cells[S.keys[key]].cache[1], err |-> NoErr]
            ELSE get(S, key, FALSE),
            LAMBDA g :
    IF g.err # NoErr THEN [S |-> S, err |-> Wrap(g.err)]
    ELSE IF S.opt.UseIntents /\ S.intents = <<>> THEN [S |-> S, err |-> ErrPanic]
    ELSE With(IF S.opt.UseIntents THEN Put(S.intents[1], key, g.blob, "none")
              ELSE [S |-> S, err |-> NoErr],
              LAMBDA ip :
      LET S1 == IF S.opt.UseIntents THEN [S EXCEPT !.intents = <<ip.S>>] ELSE S
      IN IF ip.err # NoErr THEN [S |-> S1, err |-> Wrap(ip.err)]
         ELSE IF stop = "afterIntent" THEN [S |-> S1, err |-> ErrStopped]
         ELSE With(delete(S1, key, FALSE), LAMBDA d :
           IF d.err # NoErr THEN d
           ELSE IF stop = "afterDelete" THEN [S |-> d.S, err |-> ErrStopped]
           ELSE With(put(d.S, key, val, fail), LAMBDA p :
             IF p.err = ErrPanic THEN p
             ELSE IF p.err # NoErr
             THEN With(put(p.S, key, g.blob, "none"), LAMBDA rp :
                    [S |-> rp.S, err |-> IF rp.err = ErrPanic THEN ErrPanic ELSE p.err])
             ELSE IF stop = "afterPut" THEN [S |-> p.S, err |-> ErrStopped]
             ELSE With(IF S.opt.UseIntents THEN Delete(p.S.intents[1], key, FALSE)
                       ELSE [S |-> p.S, err |-> NoErr],
                       LAMBDA idl :
               LET S2 == IF S.opt.UseIntents THEN [p.S EXCEPT !.intents = <<idl.S>>] ELSE p.S
               IN IF idl.err # NoErr THEN [S |-> S2, err |-> Wrap(idl.err)]
                  ELSE IF stop = "afterUnintent" THEN [S |-> S2, err |-> ErrStopped]
                  ELSE IF S2.mirror = <<>> THEN [S |-> S2, err |-> NoErr]
                  ELSE With(Modify(S2.mirror[1], key, val, "none", "none"), LAMBDA m :
                         [S |-> [S2 EXCEPT !.mirror = <<m.S>>],
                          err |-> IF m.err = NoErr THEN NoErr ELSE Wrap(m.err)]))))))

\* FlatFile.saveOptions: Options.Marshal writes the exported fields.
saveOptions(S) == [S EXCEPT !.ofile = <<[S.opt EXCEPT !.utility = FALSE]>>]

\* A loadOptions that leaves the options file unread.
loadOptionsPassed(S) == S

\* FlatFile.loadOptions: Options.Unmarshal keeps the unexported fields of
\* the options passed to Open.
loadOptions(S) ==
  IF S.ofile = <<>> THEN S
  ELSE [S EXCEPT !.opt = [S.ofile[1] EXCEPT !.utility = S.opt.utility]]

\* FlatFile.Close
RECURSIVE Close(_)
Close(S) ==
  [StreamClose(HeaderClose(saveOptions(S)))
     EXCEPT !.mirror = IF @ = <<>> THEN <<>> ELSE <<Close(@[1])>>,
            !.intents = IF @ = <<>> THEN <<>> ELSE <<Close(@[1])>>]

\* The calls of FlatFile.Close that may fail: saveOptions (the options file
\* cannot be opened), header.Close (h.file.Close fails after the flush),
\* stream.Close (the Close of a page fails), ff.mirror.Close and
\* ff.intents.Close (the options file of the nested store cannot be opened).
CloseFails(S) ==
  {"options", "header"}
    \cup (IF S.npages > 0 THEN {"stream"} ELSE {})
    \cup (IF S.mirror # <<>> THEN {"mirror"} ELSE {})
    \cup (IF S.intents # <<>> THEN {"intents"} ELSE {})

\* FlatFile.Close where the calls named in fails fail.  stream.Close wraps a
\* nil error with fmt.Errorf, which is an error all the same.  The error of
\* ff.intents.Close is formatted into the message and is not tested.
RECURSIVE CloseFailing(_, _)
CloseFailing(S, fails) ==
  LET erro == "options" \in fails
      errh == "header" \in fails
      errs == "stream" \in fails /\ S.npages > 0
      S1 == StreamClose(HeaderClose(IF erro THEN S ELSE saveOptions(S)))
      m == IF S.mirror = <<>> THEN [S |-> S, err |-> NoErr]
           ELSE CloseFailing(S.mirror[1], IF "mirror" \in fails THEN {"options"} ELSE {})
      i == IF S.intents = <<>> THEN [S |-> S, err |-> NoErr]
           ELSE CloseFailing(S.intents[1], IF "intents" \in fails THEN {"options"} ELSE {})
      errm == m.err # NoErr
  IN [S |-> [S1 EXCEPT !.mirror = IF @ = <<>> THEN <<>> ELSE <<m.S>>,
                       !.intents = IF @ = <<>> THEN <<>> ELSE <<i.S>>],
      err |-> IF erro \/ errh \/ errs \/ errm THEN ErrIO ELSE NoErr]

\* FlatFile.Clear.  header.Clear and stream.Clear are not in the sources:
\* all cells are dropped from the header and all page files are removed.
Clear(S) ==
  [S EXCEPT !.cells = EmptyMap, !.nextAddr = 1, !.pot = EmptyMap, !.maxid = 0,
            !.keys = EmptyMap, !.bin = <<>>, !.binids = EmptyMap, !.dirty = EmptyMap,
            !.memq = <<>>, !.memkeys = EmptyMap, !.memsize = 0,
            !.hrecs = <<>>, !.npages = 0, !.pfiles = <<>>]

\* The loop of FlatFile.restoreFromIntents over the keys ks of the intents
\* store (at most one modify is journalled at a time).
RECURSIVE RestoreLoop(_, _)
RestoreLoop(S, ks) ==
  IF ks = {} THEN [S |-> S, err |-> NoErr]
  ELSE LET k == CHOOSE x \in ks : TRUE
       IN With(Get(S.intents[1], k), LAMBDA g :
            IF g.err # NoErr THEN [S |-> S, err |-> Wrap(g.err)]
            ELSE With(put(S, k, g.blob, "none"), LAMBDA p :
                   IF p.err # NoErr THEN [S |-> p.S, err |-> Wrap(p.err)]
                   ELSE RestoreLoop(p.S, ks \ {k})))

\* FlatFile.restoreFromIntents
restoreFromIntents(S) ==
  With(RestoreLoop(S, HeaderKeys(S.intents[1])), LAMBDA r :
    IF r.err # NoErr THEN r
    ELSE [S |-> [r.S EXCEPT !.intents = <<Clear(@[1])>>], err |-> NoErr])

\* The files of a store and of the stores nested in its directory: what is
\* left of a FlatFile when its process has stopped.
RECURSIVE Disk(_)
Disk(S) ==
  [EmptyStore EXCEPT !.opt = S.opt,
                     !.hmagic = S.hmagic, !.hrecs = S.hrecs, !.pfiles = S.pfiles,
                     !.ofile = S.ofile,
                     !.mirror = IF S.mirror = <<>> THEN <<>> ELSE <<Disk(S.mirror[1])>>,
                     !.intents = IF S.intents = <<>> THEN <<>> ELSE <<Disk(S.intents[1])>>]

\* The options of the intents store (FlatFile.load) and of the mirror (Open).
IntentsOptions(o) ==
  [o EXCEPT !.utility = TRUE, !.PersistentHeader = TRUE, !.CachedWrites = FALSE,
            !.MaxCacheMemory = 0, !.ZeroPadDeleted = FALSE]

MirrorOptions(o) == [o EXCEPT !.utility = TRUE]

RECURSIVE Open(_, _, _)
RECURSIVE load(_, _)

\* The walk orders of a nested store: ord is <<own, mirror's, intents'>>.
Nested(o) == <<o, <<>>, <<>>>>

\* FlatFile.load.  ord holds the orders of the pot walks of header.load (the
\* iteration order of a Go map), for the store, its mirror and its intents.
load(S, ord) ==
  With(HeaderOpen(S, S.opt.CompactHeader, ord[1]), LAMBDA ho :
    IF ho.err # NoErr THEN [S |-> ho.S, err |-> ErrIO]
    ELSE With(IF FFLen(ho.S) > 0 THEN StreamOpen(ho.S, ho.lastpage + 1)
              ELSE [S |-> ho.S, err |-> NoErr],
              LAMBDA so :
      IF so.err # NoErr THEN [S |-> HeaderClose(so.S), err |-> ErrIO]
      ELSE IF ~(S.opt.UseIntents /\ ~S.opt.utility) THEN [S |-> so.S, err |-> NoErr]
      ELSE With(Open(IF S.intents = <<>> THEN EmptyStore ELSE S.intents[1],
                     IntentsOptions(S.opt), Nested(ord[3])),
                LAMBDA io :
        IF io.err # NoErr THEN [S |-> so.S, err |-> Wrap(io.err)]
        ELSE With(restoreFromIntents([so.S EXCEPT !.intents = <<io.S>>]), LAMBDA rs :
               IF rs.err # NoErr THEN [S |-> rs.S, err |-> Wrap(rs.err)]
               ELSE rs))))

\* Open.  D holds the files of the directory (Disk); the result is a new
\* FlatFile over them.  Without MirrorDir ff.mirror is nil: a mirror
\* directory that an earlier process has left is not looked at.
Open(D, options, ord) ==
  With(load(loadOptions([Disk(D) EXCEPT !.opt = options]), ord), LAMBDA l :
    IF l.err # NoErr THEN l
    ELSE IF l.S.opt.MirrorDir # "" /\ ~l.S.opt.utility
    THEN With(Open(IF l.S.mirror = <<>> THEN EmptyStore ELSE l.S.mirror[1],
                   MirrorOptions(l.S.opt), Nested(ord[2])),
              LAMBDA mo :
           IF mo.err # NoErr THEN [S |-> l.S, err |-> Wrap(mo.err)]
           ELSE [S |-> [l.S EXCEPT !.mirror = <<mo.S>>], err |-> NoErr])
    ELSE [S |-> [l.S EXCEPT !.mirror = <<>>], err |-> NoErr])

\* FlatFile.Reopen
RECURSIVE Reopen(_, _)
Reopen(S, ord) ==
  With(load(Close(S), ord), LAMBDA l :
    IF l.err # NoErr THEN l
    ELSE IF l.S.mirror = <<>> THEN l
    ELSE With(Reopen(l.S.mirror[1], Nested(ord[2])), LAMBDA mr :
           [S |-> [l.S EXCEPT !.mirror = <<mr.S>>],
            err |-> IF mr.err = NoErr THEN NoErr ELSE Wrap(mr.err)]))

\* ---------------------------------------------------------- state machine
VARIABLES
  ff,      \* the FlatFile the program holds, or its files when status = "down"
  status,  \* "open", or "down" once the process has stopped (panic, stop)
  ref,     \* a plain key -> value map fed with the successful mutations
  gone,    \* the keys for which a delete has succeeded
  last,    \* the last facade call: its arguments, what it found, its result
  nops,    \* number of facade calls made
  mutex,   \* FlatFile.mutex of the store, of its mirror and of its intents
           \* store: the thread in Lock and the threads in RLock
  fpos,    \* the position of the file of each page of the store
  pc,      \* where each thread is in its facade call
  call,    \* the facade call each thread is in
  ret,     \* what the last call of each thread returned
  wk,      \* the locals of Walk for each thread
  ncalls   \* number of facade calls begun by each thread

svars == <<ff, status, ref, gone, last, nops>>
tvars == <<mutex, fpos, pc, call, ret, wk, ncalls>>
vars == <<svars, tvars>>

Threads == {"t1", "t2"}
NoThread == "none"
NoWalk == [todo |-> <<>>, seen |-> <<>>, live |-> EmptyMap, data |-> <<>>, stopped |-> FALSE]
NoCallYet == [op |-> "none", key |-> "", val |-> <<>>]
NoResult == [err |-> NoErr, blob |-> <<>>, keys |-> {}]

\* No thread is in a call: the state of the threads in the specifications
\* where one process makes one call after the other.
Quiet ==
  /\ mutex = [m \in {"ff", "mirror", "intents"} |-> [w |-> NoThread, r |-> {}]]
  /\ fpos = EmptyMap
  /\ pc = [t \in Threads |-> "idle"]
  /\ call = [t \in Threads |-> NoCallYet]
  /\ ret = [t \in Threads |-> NoResult]
  /\ wk = [t \in Threads |-> NoWalk]
  /\ ncalls = [t \in Threads |-> 0]

\* The ids of the cells that header.load of the files D will find Deleted.
DeletedOnDisk(D) ==
  With(Replay([Disk(D) EXCEPT !.cells = EmptyMap], 1), LAMBDA R :
    {i \in DOMAIN R.pot : R.cells[R.pot[i]].CellState = StateDeleted})

\* The orders in which header.load may walk the pots of the files D and of
\* the stores nested in them.
LoadOrders(D) ==
  Orders(DeletedOnDisk(D))
    \X (IF D.mirror = <<>> THEN {<<>>} ELSE Orders(DeletedOnDisk(D.mirror[1])))
    \X (IF D.intents = <<>> THEN {<<>>} ELSE Orders(DeletedOnDisk(D.intents[1])))

\* The (key, value) pairs of a store: a map from its keys to what Get
\* returns for them.
Pairs(S) == [k \in HeaderKeys(S) |-> With(Get(S, k), LAMBDA g : <<g.err, g.blob>>)]

NoCall ==
  [op |-> "none", key |-> "", val |-> <<>>, live |-> FALSE, pre |-> <<>>,
   err |-> NoErr, blob |-> <<>>, stop |-> "none"]

\* The record of a call: op(key, val) found key live or not, with value
\* pre (<<>> if Get failed, else <<blob>>), and ended with r; stop is the
\* place where the process was stopped in it, or the I/O call that failed
\* in it, if there was one.
Call(op, key, val, r, stop) ==
  [op |-> op, key |-> key, val |-> val,
   live |-> key \in DOMAIN ff.keys,
   pre |-> With(Get(ff, key), LAMBDA g : IF g.err = NoErr THEN <<g.blob>> ELSE <<>>),
   err |-> r.err,
   blob |-> IF op = "get" THEN r.blob ELSE <<>>,
   stop |-> stop]

\* The record of an open or a reopen: was is the call made before it, and
\* journal the pairs held by the intents directory when it began.
Opening(op, r) ==
  [op |-> op, err |-> r.err, was |-> IF last.op \in {"open", "reopen"} THEN NoCall ELSE last,
   journal |-> IF ff.intents = <<>> THEN EmptyMap
               ELSE Pairs(Open(ff.intents[1], IntentsOptions(ff.opt), Nested(<<>>)).S)]

Stops(r) == r.err \in {ErrPanic, ErrStopped}

\* What a call that ended with r leaves: a panic stops the process.
After(r) ==
  /\ ff' = IF Stops(r) THEN Disk(r.S) ELSE r.S
  /\ status' = IF Stops(r) THEN "down" ELSE "open"
  /\ nops' = nops + 1

Ready == status = "open" /\ nops < MaxOps

AllKeys == Keys \cup {""}

DoPut(k, v) ==
  /\ Ready
  /\ UNCHANGED tvars
  /\ \E r \in {Put(ff, k, v, "none")} :
       /\ After(r)
       /\ ref' = IF r.err = NoErr THEN MapPut(ref, k, v) ELSE ref
       /\ last' = Call("put", k, v, r, "none")
       /\ gone' = gone

\* Get leaves the store as it is (get is called with cache = false): it is
\* not counted in nops.
DoGet(k) ==
  /\ Ready
  /\ UNCHANGED tvars
  /\ \E r \in {Get(ff, k)} :
       /\ ff' = IF Stops(r) THEN Disk(r.S) ELSE r.S
       /\ status' = IF Stops(r) THEN "down" ELSE "open"
       /\ nops' = nops
       /\ last' = Call("get", k, <<>>, r, "none")
       /\ UNCHANGED <<ref, gone>>

DoModify(k, v) ==
  /\ Ready
  /\ UNCHANGED tvars
  /\ \E r \in {Modify(ff, k, v, "none", "none")} :
       /\ After(r)
       /\ ref' = IF r.err = NoErr THEN MapPut(ref, k, v) ELSE ref
       /\ last' = Call("modify", k, v, r, "none")
       /\ gone' = gone

\* The process stops (is killed, loses power) inside Modify at stop.
DoModifyStopped(k, v, stop) ==
  /\ Ready
  /\ UNCHANGED tvars
  /\ \E r \in {Modify(ff, k, v, "none", stop)} :
       /\ r.err = ErrStopped
       /\ After(r)
       /\ last' = Call("modify", k, v, r, stop)
       /\ UNCHANGED <<ref, gone>>

DoDelete(k) ==
  /\ Ready
  /\ UNCHANGED tvars
  /\ \E r \in {Delete(ff, k, FALSE)} :
       /\ After(r)
       /\ ref' = IF r.err = NoErr THEN MapDel(ref, k) ELSE ref
       /\ last' = Call("delete", k, <<>>, r, "none")
       /\ gone' = IF r.err = NoErr THEN gone \cup {k} ELSE gone

DoReopen ==
  /\ Ready
  /\ UNCHANGED tvars
  /\ \E ord \in LoadOrders(Close(ff)) :
       \E r \in {Reopen(ff, ord)} :
         /\ ff' = IF r.err # NoErr THEN Disk(r.S) ELSE r.S
         /\ status' = IF r.err # NoErr THEN "down" ELSE "open"
         /\ nops' = nops + 1
         /\ last' = Opening("reopen", r)
         /\ UNCHANGED <<ref, gone>>

\* A new process opens the directory with the options of the first one.
\* The reference map restarts from what the new process finds.
Restart ==
  /\ status = "down"
  /\ UNCHANGED tvars
  /\ nops < MaxOps
  /\ \E ord \in LoadOrders(ff) :
       \E r \in {Open(ff, ff.opt, ord)} :
         /\ ff' = IF r.err # NoErr THEN Disk(r.S) ELSE r.S
         /\ status' = IF r.err # NoErr THEN "down" ELSE "open"
         /\ nops' = nops + 1
         /\ last' = Opening("open", r)
         /\ ref' = IF r.err # NoErr THEN ref
                   ELSE [k \in HeaderKeys(r.S) |-> Get(r.S, k).blob]
         /\ gone' = gone

InitWith(opts) ==
  /\ \E o \in opts : ff = Open(EmptyStore, o, Nested(<<>>)).S
  /\ status = "open"
  /\ ref = EmptyMap
  /\ gone = {}
  /\ nops = 0
  /\ last = [op |-> "open", err |-> NoErr, was |-> NoCall, journal |-> EmptyMap]
  /\ Quiet

\* Option values: <<MaxPageSize, PersistentHeader, CompactHeader,
\* MaxCacheMemory, CachedWrites>>.
OptionsOf(t) ==
  [DefaultOptions EXCEPT !.MaxPageSize = t[1], !.PersistentHeader = t[2],
                         !.CompactHeader = t[3], !.MaxCacheMemory = t[4],
                         !.CachedWrites = t[5]]

\* A single store: no mirror, no intents.
Init ==
  InitWith({OptionsOf(t) : t \in {<<0, TRUE, TRUE, 0, FALSE>>, <<3, FALSE, FALSE, 2, TRUE>>,
                                  <<3, TRUE, FALSE, 0, FALSE>>, <<0, FALSE, TRUE, 2, TRUE>>}})

Next ==
  \/ \E k \in AllKeys, v \in Vals : DoPut(k, v)
  \/ \E k \in AllKeys : DoGet(k)
  \/ \E k \in AllKeys, v \in Vals : DoModify(k, v)
  \/ \E k \in AllKeys : DoDelete(k)
  \/ DoReopen
  \/ Restart

Spec == Init /\ [][Next]_vars

\* A store with a mirror, with and without intents.
InitMirror ==
  InitWith({[OptionsOf(t) EXCEPT !.MirrorDir = "mirror", !.UseIntents = u] :
              t \in {<<0, TRUE, TRUE, 0, FALSE>>, <<3, FALSE, FALSE, 2, TRUE>>},
              u \in BOOLEAN})

SpecMirror == InitMirror /\ [][Next]_vars

\* A store with intents, whose process may stop inside Modify.
InitIntents ==
  InitWith({[OptionsOf(t) EXCEPT !.UseIntents = TRUE] :
              t \in {<<0, TRUE, TRUE, 0, FALSE>>, <<3, FALSE, FALSE, 2, TRUE>>,
                     <<0, FALSE, TRUE, 0, FALSE>>}})

NextStopping ==
  \/ Next
  \/ \E k \in Keys, v \in Vals, stop \in ModifyStops \ {"none"} : DoModifyStopped(k, v, stop)

SpecIntents == InitIntents /\ [][NextStopping]_vars

\* A store that has been used: the state of a fresh store after
\* Put("a", <<2, 2>>), Put("b", <<1>>), Delete("a"), Delete("b"), which
\* leaves two Deleted cells, on two pages when pages are limited, and no
\* live key.
UsedStore(o) ==
  LET s0 == Open(EmptyStore, o, Nested(<<>>)).S
      s1 == Put(s0, "a", <<2, 2>>, "none").S
      s2 == Put(s1, "b", <<1>>, "none").S
      s3 == Delete(s2, "a", FALSE).S
  IN Delete(s3, "b", FALSE).S

InitUsed ==
  /\ \E t \in {<<3, TRUE, TRUE, 0, FALSE>>, <<3, FALSE, FALSE, 2, TRUE>>,
               <<0, TRUE, FALSE, 0, FALSE>>} : ff = UsedStore(OptionsOf(t))
  /\ status = "open"
  /\ ref = EmptyMap
  /\ gone = {"a", "b"}
  /\ nops = 0
  /\ last = Call("delete", "b", <<>>, [err |-> NoErr], "none")
  /\ Quiet

SpecUsed == InitUsed /\ [][Next]_vars

\* The I/O calls of put that may fail: stream.GetCellPage (a page file
\* cannot be created), page.Put (the blob cannot be written) and
\* header.Update (the record cannot be appended).
PutFails == {"page", "write", "header"}

\* Put whose I/O call fail fails.  The call is made only where put gets to
\* that I/O call.
DoPutFailing(k, v, fail) ==
  /\ Ready
  /\ UNCHANGED tvars
  /\ \E r \in {Put(ff, k, v, fail)} :
       /\ r.err = ErrIO
       /\ After(r)
       /\ last' = Call("put", k, v, r, fail)
       /\ UNCHANGED <<ref, gone>>

\* Modify whose inner put fails at the I/O call fail.
DoModifyFailing(k, v, fail) ==
  /\ Ready
  /\ UNCHANGED tvars
  /\ \E r \in {Modify(ff, k, v, fail, "none")} :
       /\ r.err = ErrIO
       /\ After(r)
       /\ last' = Call("modify", k, v, r, fail)
       /\ UNCHANGED <<ref, gone>>

\* A single store, with and without intents, whose I/O calls may fail.
SpecFailing ==
  /\ InitWith({[OptionsOf(t) EXCEPT !.UseIntents = u] :
                 t \in {<<0, TRUE, TRUE, 0, FALSE>>, <<3, TRUE, FALSE, 2, TRUE>>},
                 u \in BOOLEAN})
  /\ [][\/ Next
        \/ \E k \in Keys, v \in Vals, fail \in PutFails : DoPutFailing(k, v, fail)
        \/ \E k \in Keys, v \in Vals, fail \in PutFails : DoModifyFailing(k, v, fail)]_vars

\* Put whose forward to the mirror fails at the I/O call fail of the mirror:
\* the call is made only where the put of the outer store succeeds and the
\* put of the mirror gets to that I/O call.
DoPutMirrorFailing(k, v, fail) ==
  /\ Ready
  /\ UNCHANGED tvars
  /\ k \notin DOMAIN ff.keys
  /\ \E r \in {Put(ff, k, v, fail)} :
       /\ r.err # ErrPanic
       /\ k \in DOMAIN r.S.keys
       /\ k \notin DOMAIN r.S.mirror[1].keys
       /\ After(r)
       /\ ref' = IF k \in DOMAIN r.S.keys THEN MapPut(ref, k, v) ELSE ref
       /\ last' = Call("put", k, v, r, fail)
       /\ gone' = gone

\* A store with a mirror, without intents, where the I/O calls of the
\* mirror may fail.
SpecMirrorFailing ==
  /\ InitWith({[OptionsOf(t) EXCEPT !.MirrorDir = "mirror"] :
                 t \in {<<0, TRUE, TRUE, 0, FALSE>>, <<3, FALSE, FALSE, 2, TRUE>>,
                        <<3, TRUE, FALSE, 0, FALSE>>}})
  /\ [][\/ Next
        \/ \E k \in Keys, v \in Vals,
               fail \in {"mirror page", "mirror write", "mirror header"} :
             DoPutMirrorFailing(k, v, fail)]_vars

\* An immutable store.
SpecImmutable ==
  /\ InitWith({[OptionsOf(t) EXCEPT !.Immutable = TRUE] :
                 t \in {<<0, TRUE, TRUE, 0, FALSE>>, <<3, FALSE, FALSE, 2, TRUE>>,
                        <<3, TRUE, FALSE, 0, FALSE>>, <<0, FALSE, TRUE, 2, TRUE>>}})
  /\ [][\/ \E k \in AllKeys, v \in Vals : DoPut(k, v)
        \/ \E k \in AllKeys : DoGet(k)
        \/ \E k \in AllKeys, v \in Vals : DoModify(k, v)
        \/ \E k \in AllKeys : DoDelete(k)
        \/ DoReopen]_vars

\* The bytes that the page file of the cell at a holds for its blob.
OnPage(S, a) ==
  LET c == S.cells[a]
  IN IF c.PageIndex < 0 \/ c.PageIndex >= Len(S.pfiles) THEN <<>>
     ELSE PageRead(S.pfiles[c.PageIndex + 1], c.Offset, c).blob

\* Another program writes the byte b over byte i of the blob of the live
\* key k in its page file.
DoPatch(k, i, b) ==
  /\ Ready
  /\ UNCHANGED tvars
  /\ k \in DOMAIN ff.keys
  /\ i \in 1..Len(OnPage(ff, ff.keys[k]))
  /\ OnPage(ff, ff.keys[k])[i] # b
  /\ ff' = [ff EXCEPT !.pfiles[ff.cells[ff.keys[k]].PageIndex + 1] =
                         WriteAt(@, ff.cells[ff.keys[k]].Offset + i - 1, <<b>>)]
  /\ nops' = nops + 1
  /\ last' = [NoCall EXCEPT !.op = "patch", !.key = k]
  /\ UNCHANGED <<status, ref, gone>>

\* A single store with CRC whose page files are written to by another
\* program.  The process is not started again once it has stopped, so that
\* ref holds the values put.
SpecPatched ==
  /\ InitWith({OptionsOf(t) : t \in {<<0, TRUE, TRUE, 0, FALSE>>, <<3, FALSE, FALSE, 2, TRUE>>,
                                     <<3, TRUE, FALSE, 0, FALSE>>, <<0, TRUE, TRUE, 2, TRUE>>}})
  /\ [][\/ \E k \in AllKeys, v \in Vals : DoPut(k, v)
        \/ \E k \in AllKeys : DoGet(k)
        \/ \E k \in AllKeys, v \in Vals : DoModify(k, v)
        \/ \E k \in AllKeys : DoDelete(k)
        \/ DoReopen
        \/ \E k \in Keys, i \in 1..2, b \in 0..2 : DoPatch(k, i, b)]_vars

\* A single store with write caching, with a cache limit of 1 and 2 bytes.
SpecCached ==
  /\ InitWith({OptionsOf(t) : t \in {<<0, TRUE, TRUE, 1, TRUE>>, <<3, FALSE, FALSE, 1, TRUE>>,
                                     <<0, TRUE, FALSE, 2, TRUE>>}})
  /\ [][Next]_vars

\* Stores with pages of one byte, mutable and immutable, with and without
\* a mirror: every rejection of a call for its arguments can happen.
SpecRejecting ==
  /\ InitWith({[OptionsOf(t) EXCEPT !.Immutable = i, !.MirrorDir = m] :
                 t \in {<<1, TRUE, TRUE, 0, FALSE>>, <<1, FALSE, FALSE, 2, TRUE>>},
                 i \in BOOLEAN, m \in {"", "mirror"}})
  /\ [][Next]_vars

\* --------------------------------------------------- pages of 1024 bytes
\* The number of values put, their length, and the page size.
MaxPuts == 10
BlobLen == 128
PageSize == 1024

\* Blobs of BlobLen bytes.
Blobs == {[i \in 1..BlobLen |-> b] : b \in {1, 2}}

\* The key of the n-th put.
KeyOf(n) == "k" \o ToString(n)

\* The next of MaxPuts puts of a blob under a new key.
DoPutNext(v) ==
  /\ status = "open"
  /\ FFLen(ff) < MaxPuts
  /\ UNCHANGED tvars
  /\ \E k \in {KeyOf(FFLen(ff) + 1)} :
       \E r \in {Put(ff, k, v, "none")} :
         /\ ff' = r.S
         /\ ref' = IF r.err = NoErr THEN MapPut(ref, k, v) ELSE ref
         /\ last' = Call("put", k, v, r, "none")
  /\ UNCHANGED <<status, gone, nops>>

\* An empty store with pages of PageSize bytes that are preallocated, with
\* and without a persistent header.  The checksum of a blob is not taken.
SpecPages ==
  /\ InitWith({[DefaultOptions EXCEPT !.MaxPageSize = PageSize, !.PreallocatePages = TRUE,
                                      !.CRC = FALSE, !.PersistentHeader = h] :
                 h \in BOOLEAN})
  /\ [][\E v \in Blobs : DoPutNext(v)]_vars

\* ------------------------------------------------- close, and open again
\* The program closes the store and exits; the calls of Close named in
\* fails fail.
DoClose(fails) ==
  /\ Ready
  /\ UNCHANGED tvars
  /\ fails \subseteq CloseFails(ff)
  /\ \E r \in {CloseFailing(ff, fails)} :
       /\ ff' = Disk(r.S)
       /\ last' = [op |-> "close", err |-> r.err, fails |-> fails, pairs |-> Pairs(ff)]
  /\ status' = "down"
  /\ nops' = nops + 1
  /\ UNCHANGED <<ref, gone>>

\* A store with a mirror and intents, and a store without them, that the
\* program closes with any of the calls of Close failing.
SpecClosing ==
  /\ InitWith({[OptionsOf(t) EXCEPT !.MirrorDir = m, !.UseIntents = m # ""] :
                 t \in {<<0, TRUE, TRUE, 0, FALSE>>, <<3, FALSE, FALSE, 2, TRUE>>},
                 m \in {"", "mirror"}})
  /\ [][\/ \E k \in Keys, v \in Vals : DoPut(k, v)
        \/ \E k \in Keys : DoGet(k)
        \/ \E k \in Keys, v \in Vals : DoModify(k, v)
        \/ \E k \in Keys : DoDelete(k)
        \/ DoReopen
        \/ \E fails \in SUBSET {"options", "header", "stream", "mirror", "intents"} :
             DoClose(fails)
        \/ Restart]_vars

\* First 4 bytes that are not the signature of a header file.
BadMagics == {<<0, 0, 0, 0>>, <<241, 71, 241, 18>>}

\* Another program writes m over the first 4 bytes of the header file of
\* a directory that no process has open.
DoPatchMagic(m) ==
  /\ status = "down"
  /\ nops < MaxOps
  /\ UNCHANGED tvars
  /\ ff.hmagic = HdrMagic
  /\ ff' = [ff EXCEPT !.hmagic = m]
  /\ last' = [op |-> "patch magic", err |-> NoErr]
  /\ nops' = nops + 1
  /\ UNCHANGED <<status, ref, gone>>

\* The options that a later process passes to Open.
PassedOptions ==
  {DefaultOptions,
   [DefaultOptions EXCEPT !.MaxPageSize = 3, !.CRC = FALSE, !.PersistentHeader = FALSE],
   [DefaultOptions EXCEPT !.MirrorDir = "mirror", !.CompactHeader = FALSE]}

\* A new process opens the directory with the options o.
DoOpenWith(o) ==
  /\ status = "down"
  /\ nops < MaxOps
  /\ UNCHANGED tvars
  /\ \E ord \in LoadOrders(ff) :
       \E r \in {Open(ff, o, ord)} :
         /\ ff' = IF r.err # NoErr THEN Disk(r.S) ELSE r.S
         /\ status' = IF r.err # NoErr THEN "down" ELSE "open"
         /\ last' = [op |-> "open", err |-> r.err, was |-> last, passed |-> o,
                     sidecar |-> ff.ofile, magic |-> ff.hmagic]
         /\ ref' = IF r.err # NoErr THEN ref
                   ELSE [k \in HeaderKeys(r.S) |-> Get(r.S, k).blob]
  /\ nops' = nops + 1
  /\ gone' = gone

\* A directory that is opened by one process after the other, each with
\* options of its own, and whose header file other programs write to.
SpecSidecar ==
  /\ InitWith({OptionsOf(t) : t \in {<<0, TRUE, TRUE, 0, FALSE>>, <<3, FALSE, FALSE, 2, TRUE>>,
                                     <<2, TRUE, FALSE, 0, FALSE>>}})
  /\ [][\/ \E k \in Keys, v \in Vals : DoPut(k, v)
        \/ \E k \in Keys : DoGet(k)
        \/ \E k \in Keys, v \in Vals : DoModify(k, v)
        \/ \E k \in Keys : DoDelete(k)
        \/ DoReopen
        \/ DoClose({})
        \/ \E m \in BadMagics : DoPatchMagic(m)
        \/ \E o \in PassedOptions : DoOpenWith(o)]_vars

\* -------------------------------------------------------- a stop inside put
\* The places of FlatFile.put where the process may be stopped: after
\* header.Select and header.Cache, after stream.GetCellPage, inside the Write
\* of page.Put when n bytes are written, after page.Put, after
\* header.Update, after header.Use; and in FlatFile.Put before the call of
\* ff.mirror.Put.  What is left is the state the call had got to.
PutStops == {"afterSelect", "afterPage", "inWrite", "afterWrite", "afterUpdate",
             "afterUse", "beforeMirror"}

putStopped(S, key, val, stop, n) ==
  IF key \in DOMAIN S.keys THEN [S |-> S, err |-> ErrDuplicateKey]
  ELSE IF S.opt.MaxPageSize > 0 /\ Len(val) > S.opt.MaxPageSize
  THEN [S |-> S, err |-> ErrBlobTooBig]
  ELSE With(Select(S, ~S.opt.Immutable, Len(val)), LAMBDA sel :
    IF sel.panic THEN [S |-> sel.S, err |-> ErrPanic]
    ELSE
      LET a == sel.c
          S1 == [sel.S EXCEPT !.cells[a].key = key,
                              !.cells[a].CRC32 = IF S.opt.CRC THEN ChecksumIEEE(val) ELSE @]
          S2 == IF S.opt.MaxCacheMemory > 0 /\ S.opt.CachedWrites /\ ~S.opt.utility
                THEN Cache(S1, a, val, S.opt.MaxCacheMemory)
                ELSE S1
      IN IF stop = "afterSelect" THEN [S |-> S2, err |-> ErrStopped]
         ELSE With(GetCellPage(S2, a, S.opt.MaxPageSize, S.opt.PreallocatePages, FALSE),
                   LAMBDA gp :
           IF gp.err # NoErr THEN [S |-> gp.S, err |-> ErrPanic]
           ELSE IF stop = "afterPage" THEN [S |-> gp.S, err |-> ErrStopped]
           ELSE IF stop = "inWrite"
           THEN [S |-> [gp.S EXCEPT !.pfiles[gp.page + 1] =
                          With(PagePut(<<>>, [gp.S.cells[a] EXCEPT !.Offset = 0], val,
                                       S.opt.ZeroPadDeleted),
                               LAMBDA data :
                                 WriteAt(@, gp.S.cells[a].Offset,
                                         SubSeq(data, 1, IF n < Len(data) THEN n ELSE Len(data))))],
                 err |-> ErrStopped]
           ELSE With([gp.S EXCEPT !.pfiles[gp.page + 1] =
                        PagePut(@, gp.S.cells[a], val, S.opt.ZeroPadDeleted)],
                     LAMBDA wr :
                  IF stop = "afterWrite" THEN [S |-> wr, err |-> ErrStopped]
                  ELSE With(Update(wr, a, S.opt.PersistentHeader, FALSE).S, LAMBDA up :
                         IF stop = "afterUpdate" THEN [S |-> up, err |-> ErrStopped]
                         ELSE [S |-> Use(up, a), err |-> ErrStopped]))))

\* FlatFile.Put stopped at stop: in ff.put, or before ff.mirror.Put.
PutStopped(S, key, val, stop, n) ==
  IF Len(key) = 0 THEN [S |-> S, err |-> ErrInvalidKey]
  ELSE IF stop # "beforeMirror" THEN putStopped(S, key, val, stop, n)
  ELSE With(put(S, key, val, "none"), LAMBDA r :
         IF r.err # NoErr THEN r ELSE [r EXCEPT !.err = ErrStopped])

\* Put(k, v) during which the process is stopped.
DoPutStopped(k, v, stop, n) ==
  /\ Ready
  /\ UNCHANGED tvars
  /\ \E r \in {PutStopped(ff, k, v, stop, n)} :
       /\ r.err = ErrStopped
       /\ After(r)
       /\ last' = Call("put", k, v, r, stop) @@ [pairs |-> Pairs(ff)]
       /\ UNCHANGED <<ref, gone>>

\* Stores with a persistent header, with and without a mirror, where the
\* process may be stopped inside Put.
SpecPutStopped ==
  /\ InitWith({[OptionsOf(t) EXCEPT !.MirrorDir = m] :
                 t \in {<<0, TRUE, TRUE, 0, FALSE>>, <<3, TRUE, FALSE, 2, TRUE>>},
                 m \in {"", "mirror"}})
  /\ [][\/ Next
        \/ \E k \in Keys, v \in Vals, stop \in PutStops, n \in 0..1 :
             DoPutStopped(k, v, stop, n)]_vars

\* ------------------------------------------------------------ the bin alone
\* A bin and Deleted cells, as in TestBin: ff holds the cells and the bin,
\* gone the cells that were trashed and not recycled since.
MaxBinCells == 3
BinSizes == {1, 2, 4}

InitBin ==
  /\ \E al \in [1..MaxBinCells -> BinSizes] :
       ff = [EmptyStore EXCEPT
               !.cells = [a \in 1..MaxBinCells |->
                            [NewCell EXCEPT !.CellID = a, !.CellState = StateDeleted,
                                            !.Allocated = al[a]]],
               !.nextAddr = MaxBinCells + 1]
  /\ status = "open"
  /\ ref = EmptyMap
  /\ gone = {}
  /\ nops = 0
  /\ last = [op |-> "newBin", min |-> 0, c |-> 0, was |-> {}, bin |-> <<>>]
  /\ Quiet

\* b.Trash(c) for a cell that is not in the bin.
DoTrash(a) ==
  /\ Ready
  /\ UNCHANGED tvars
  /\ a \notin gone
  /\ ff' = BinTrash(ff, a)
  /\ gone' = gone \cup {a}
  /\ nops' = nops + 1
  /\ last' = [op |-> "trash", min |-> 0, c |-> a, was |-> gone, bin |-> ff.bin]
  /\ UNCHANGED <<status, ref>>

\* b.Recycle(min)
DoRecycle(min) ==
  /\ Ready
  /\ UNCHANGED tvars
  /\ \E r \in {BinRecycle(ff, min)} :
       /\ ff' = r.S
       /\ gone' = gone \ {r.c}
       /\ last' = [op |-> "recycle", min |-> min, c |-> r.c, was |-> gone, bin |-> ff.bin]
  /\ nops' = nops + 1
  /\ UNCHANGED <<status, ref>>

SpecBin ==
  /\ InitBin
  /\ [][\/ \E a \in 1..MaxBinCells : DoTrash(a)
        \/ \E min \in 1..5 : DoRecycle(min)]_vars

\* --------------------------------------------------------- Select alone
\* A header as header.load leaves it: the cells of the pot, live or Deleted,
\* walked in some order, the Deleted ones trashed and the others entered in
\* the key index.  Select is called on it with any size.
SelectSizes == 0..5
MaxSelects == 2

InitSelect ==
  /\ \E al \in [1..MaxBinCells -> BinSizes], st \in [1..MaxBinCells -> {StateNormal, StateDeleted}],
        ord \in Orders(1..MaxBinCells) :
       ff = LoadWalk([EmptyStore EXCEPT
                        !.hopen = TRUE,
                        !.cells = [a \in 1..MaxBinCells |->
                                     [NewCell EXCEPT !.CellID = a, !.CellState = st[a],
                                                     !.key = IF st[a] = StateDeleted THEN ""
                                                             ELSE "k" \o ToString(a),
                                                     !.Offset = 4 * (a - 1),
                                                     !.Allocated = al[a],
                                                     !.Used = IF st[a] = StateDeleted THEN 0 ELSE al[a]]],
                        !.pot = [a \in 1..MaxBinCells |-> a],
                        !.maxid = MaxBinCells,
                        !.nextAddr = MaxBinCells + 1], ord)
  /\ status = "open"
  /\ ref = EmptyMap
  /\ gone = {}
  /\ nops = 0
  /\ last = [op |-> "load", reuse |-> FALSE, size |-> 0, c |-> 0, panic |-> FALSE, was |-> EmptyStore]
  /\ Quiet

\* h.Select(reuse, size); the process stops when Select panics.
DoSelect(reuse, size) ==
  /\ Ready
  /\ nops < MaxSelects
  /\ UNCHANGED tvars
  /\ \E r \in {Select(ff, reuse, size)} :
       /\ ff' = r.S
       /\ status' = IF r.panic THEN "down" ELSE "open"
       /\ last' = [op |-> "select", reuse |-> reuse, size |-> size, c |-> r.c,
                   panic |-> r.panic, was |-> ff]
  /\ nops' = nops + 1
  /\ UNCHANGED <<ref, gone>>

SpecSelect ==
  /\ InitSelect
  /\ [][\E reuse \in BOOLEAN, size \in SelectSizes : DoSelect(reuse, size)]_vars

\* ------------------------------------------------------------ mem alone
\* A mem and cells that hold their bytes, as in TestMem: ff holds the cells
\* and the queue, the key lookup and the size of mem.
MaxMemCells == 3
MemUsed == {1, 2, 4}
MemLimits == {1, 2, 4, 8}

InitMem ==
  /\ \E us \in [1..MaxMemCells -> MemUsed] :
       ff = [EmptyStore EXCEPT
               !.cells = [a \in 1..MaxMemCells |->
                            [NewCell EXCEPT !.CellID = a, !.key = "cell" \o ToString(a),
                                            !.Used = us[a],
                                            !.cache = <<[i \in 1..us[a] |-> i]>>]],
               !.nextAddr = MaxMemCells + 1]
  /\ status = "open"
  /\ ref = EmptyMap
  /\ gone = {}
  /\ nops = 0
  /\ last = [op |-> "newMem", c |-> 0, max |-> 0, was |-> EmptyStore]
  /\ Quiet

\* m.Push(c, maxalloc)
DoMemPush(a, maxalloc) ==
  /\ Ready
  /\ UNCHANGED tvars
  /\ ff' = MemPush(ff, a, maxalloc)
  /\ last' = [op |-> "push", c |-> a, max |-> maxalloc, was |-> ff]
  /\ nops' = nops + 1
  /\ UNCHANGED <<status, ref, gone>>

\* m.Remove(c)
DoMemRemove(a) ==
  /\ Ready
  /\ UNCHANGED tvars
  /\ ff' = MemRemove(ff, a)
  /\ last' = [op |-> "remove", c |-> a, max |-> 0, was |-> ff]
  /\ nops' = nops + 1
  /\ UNCHANGED <<status, ref, gone>>

SpecMem ==
  /\ InitMem
  /\ [][\/ \E a \in 1..MaxMemCells, maxalloc \in MemLimits : DoMemPush(a, maxalloc)
        \/ \E a \in 1..MaxMemCells : DoMemRemove(a)]_vars

\* ------------------------------------------------- the read-seek window
\* A LimitedReadSeekCloser over a file, as in TestReadSeekLimiter: ff holds
\* the file (its bytes f and its position pos) and the fields of the window,
\* ref the offset and the size the window was made with.  whence is 0, 1 or 2
\* (os.SEEK_SET, os.SEEK_CUR, os.SEEK_END); any other value is invalid.
ErrEOF == "EOF"
ErrReadSeekCloserLimiter == "readseekcloselimiter:"
TestData == <<"a", "b", "c", "d", "e", "f", "g", "h", "i", "j", "k", "l", "m", "n", "o">>
WindowOffsets == {0, 5, 10}
WindowSizes == {3, 5}
ReadLens == {0, 1, 3, 5, 10}
SeekOffsets == {-6, -2, -1, 0, 1, 2, 5, 10}
Whences == 0..3

\* (*os.File).Read of a buffer of len bytes: what is left of the file, at
\* most len bytes; io.EOF when the buffer has room and nothing is left.
FileRead(F, len) ==
  LET n == IF F.pos >= Len(F.f) THEN 0
           ELSE IF F.pos + len > Len(F.f) THEN Len(F.f) - F.pos ELSE len
  IN [F |-> [F EXCEPT !.pos = @ + n], n |-> n,
      data |-> SubSeq(F.f, F.pos + 1, F.pos + n),
      err |-> IF len > 0 /\ n = 0 THEN ErrEOF ELSE NoErr]

\* (*os.File).Seek: a negative position is refused and nothing moves.
FileSeek(F, offset, whence) ==
  LET to == CASE whence = 0 -> offset
              [] whence = 1 -> F.pos + offset
              [] OTHER -> Len(F.f) + offset
  IN IF to < 0 THEN [F |-> F, ret |-> 0, err |-> ErrIO]
     ELSE [F |-> [F EXCEPT !.pos = to], ret |-> to, err |-> NoErr]

\* f.Seek(offset, os.SEEK_SET) moves the file to offset, wherever it was.
NewLimitedReadSeekCloser(f, offset, size) ==
  [f |-> f, pos |-> offset, fpos |-> offset, ipos |-> 0, limit |-> size]

\* rsk.read(b) with len(b) = len
read(rsk, len) ==
  LET readlim == rsk.limit - rsk.ipos
  IN IF readlim <= 0 THEN [F |-> rsk, n |-> 0, data |-> <<>>, err |-> ErrEOF]
     ELSE IF len > readlim
     THEN With(FileRead(rsk, readlim), LAMBDA r : [r EXCEPT !.err = ErrEOF])
     ELSE With(FileRead(rsk, len), LAMBDA r : [r EXCEPT !.F.ipos = @ + r.n])

\* rsk.seek(offset, whence)
seek(rsk, offset, whence) ==
  LET out == [F |-> rsk, ret |-> 0, err |-> ErrReadSeekCloserLimiter]
  IN CASE whence = 0 ->
            IF offset < 0 \/ offset > rsk.limit THEN out
            ELSE FileSeek([rsk EXCEPT !.ipos = offset], offset, whence)
       [] whence = 1 ->
            IF rsk.ipos + offset < 0 \/ rsk.ipos + offset > rsk.limit THEN out
            ELSE FileSeek([rsk EXCEPT !.ipos = @ + offset], offset, whence)
       [] whence = 2 ->
            IF rsk.limit + offset < 0 \/ rsk.limit + offset > rsk.limit THEN out
            ELSE FileSeek([rsk EXCEPT !.limit = @ + offset], offset, whence)
       [] OTHER -> out

InitWindow ==
  /\ \E offset \in WindowOffsets, size \in WindowSizes :
       /\ ff = NewLimitedReadSeekCloser(TestData, offset, size)
       /\ ref = [offset |-> offset, size |-> size]
  /\ status = "open"
  /\ gone = {}
  /\ nops = 0
  /\ last = [op |-> "new", len |-> 0, offset |-> 0, whence |-> 0, at |-> 0,
             n |-> 0, data |-> <<>>, err |-> NoErr]
  /\ Quiet

\* rsl.Read(b); at is where the file was before the call.
DoRead(len) ==
  /\ Ready
  /\ UNCHANGED tvars
  /\ \E r \in {read(ff, len)} :
       /\ ff' = r.F
       /\ last' = [op |-> "read", len |-> len, offset |-> 0, whence |-> 0, at |-> ff.pos,
                   n |-> r.n, data |-> r.data, err |-> r.err]
  /\ nops' = nops + 1
  /\ UNCHANGED <<status, ref, gone>>

\* rsl.Seek(offset, whence)
DoSeek(offset, whence) ==
  /\ Ready
  /\ UNCHANGED tvars
  /\ \E r \in {seek(ff, offset, whence)} :
       /\ ff' = r.F
       /\ last' = [op |-> "seek", len |-> 0, offset |-> offset, whence |-> whence,
                   at |-> ff.pos, n |-> r.ret, data |-> <<>>, err |-> r.err]
  /\ nops' = nops + 1
  /\ UNCHANGED <<status, ref, gone>>

SpecWindow ==
  /\ InitWindow
  /\ [][\/ \E len \in ReadLens : DoRead(len)
        \/ \E offset \in SeekOffsets, whence \in Whences : DoSeek(offset, whence)]_vars

\* ------------------------------------------------- concurrent facade calls
\* Threads of one process call the facade of one FlatFile.  A step is what a
\* thread does between two lock operations; page.Get is two steps, its Seek
\* and its Read.  A panic unwinds the call: its deferred Unlocks run.
MaxCalls == 2

ThreadVals == {<<1>>}

\* sync.RWMutex: Lock waits for the writer and the readers to leave, and from
\* the moment it is called no new reader gets in.
LockWaits(t) ==
  CASE pc[t] \in {"lock", "restore"} -> "ff"
    [] pc[t] = "mirror" -> "mirror"
    [] pc[t] \in {"intent", "unintent"} -> "intents"
    [] OTHER -> "no"

CanLock(m) == mutex[m].w = NoThread /\ mutex[m].r = {}

CanRLock(m) == mutex[m].w = NoThread /\ \A u \in Threads : LockWaits(u) # m

Acquire(t, m) ==
  /\ CanLock(m)
  /\ mutex' = [mutex EXCEPT ![m].w = t]

Release(t, m) == mutex' = [mutex EXCEPT ![m].w = NoThread]

RAcquire(t, m) ==
  /\ CanRLock(m)
  /\ mutex' = [mutex EXCEPT ![m].r = @ \cup {t}]

RRelease(t, m) == mutex' = [mutex EXCEPT ![m].r = @ \ {t}]

Goto(t, l) == pc' = [pc EXCEPT ![t] = l]

\* The call of thread t is over: its arguments, its result and its locals
\* are the caller's.
Leave(t) ==
  /\ Goto(t, "idle")
  /\ call' = [call EXCEPT ![t] = NoCallYet]
  /\ ret' = [ret EXCEPT ![t] = NoResult]
  /\ wk' = [wk EXCEPT ![t] = NoWalk]

Returns(t, err, blob) == ret' = [ret EXCEPT ![t] = [err |-> err, blob |-> blob, keys |-> {}]]

\* The first step of each facade function.
Entry(op) ==
  CASE op \in {"put", "modify", "delete", "walk", "keys"} -> "lock"
    [] op = "get" -> "rlock"
    [] op = "close" -> "close"
    [] op = "reopen" -> "reopen"
    [] op = "clear" -> "clear"
    [] op = "compact" -> "compact"

\* The calls a thread may make: the arguments that the function reads.
CallsOf(ops) ==
  {[op |-> o, key |-> k, val |-> v] : o \in ops \cap {"put", "modify"}, k \in Keys, v \in ThreadVals}
    \cup {[op |-> o, key |-> k, val |-> <<>>] : o \in ops \cap {"get", "delete"}, k \in Keys}
    \cup {[op |-> o, key |-> "", val |-> <<>>] : o \in ops \ {"put", "modify", "get", "delete"}}

\* A thread calls a facade function.  The checks that Put, Modify and Delete
\* make before they lock (empty key, Immutable) pass for these calls.
Begin(t, ops) ==
  /\ pc[t] = "idle"
  /\ ncalls[t] < MaxCalls
  /\ \E c \in CallsOf(ops) :
       /\ call' = [call EXCEPT ![t] = c]
       /\ Goto(t, Entry(c.op))
  /\ ncalls' = [ncalls EXCEPT ![t] = @ + 1]
  /\ UNCHANGED <<svars, mutex, fpos, ret, wk>>

\* ff.mutex.Lock() of Put, Modify, Delete, Walk and Keys.
Lock(t) ==
  /\ pc[t] = "lock"
  /\ Acquire(t, "ff")
  /\ Goto(t, call[t].op)
  /\ UNCHANGED <<svars, fpos, call, ret, wk, ncalls>>

\* A function that returns without the deferred ff.mutex.Unlock().
UnlockForgotten(t) ==
  /\ pc[t] = "unlock"
  /\ Leave(t)
  /\ UNCHANGED <<svars, mutex, fpos, ncalls>>

\* The deferred ff.mutex.Unlock().
Unlock(t) ==
  /\ pc[t] = "unlock"
  /\ Release(t, "ff")
  /\ Leave(t)
  /\ UNCHANGED <<svars, fpos, ncalls>>

\* Put and Delete between Lock and the call of the mirror.
PutBody(t) ==
  /\ pc[t] \in {"put", "delete"}
  /\ \E r \in {IF pc[t] = "put" THEN put(ff, call[t].key, call[t].val, "none")
               ELSE delete(ff, call[t].key, FALSE)} :
       /\ ff' = r.S
       /\ Returns(t, r.err, <<>>)
       /\ Goto(t, IF r.err = NoErr /\ ff.mirror # <<>> THEN "mirror" ELSE "unlock")
  /\ UNCHANGED <<status, ref, gone, last, nops, mutex, fpos, call, wk, ncalls>>

\* Modify from Lock to ff.intents.Put: the cell, the size, the blob.
ModifyIntent(t) ==
  /\ pc[t] = "modify"
  /\ \E g \in {get(ff, call[t].key, FALSE)} :
       \E err \in {IF call[t].key \notin DOMAIN ff.keys THEN ErrKeyNotFound
                   ELSE IF ff.opt.MaxPageSize > 0 /\ Len(call[t].val) > ff.opt.MaxPageSize
                   THEN ErrBlobTooBig
                   ELSE IF ff.opt.UseIntents /\ g.err # NoErr THEN Wrap(g.err)
                   ELSE NoErr} :
         /\ Returns(t, err, IF ff.opt.UseIntents /\ err = NoErr THEN g.blob ELSE <<>>)
         /\ Goto(t, IF err # NoErr THEN "unlock"
                    ELSE IF ff.opt.UseIntents THEN "intent" ELSE "modify2")
  /\ UNCHANGED <<svars, mutex, fpos, call, wk, ncalls>>

\* The Lock of ff.intents.Put and of ff.intents.Delete.
IntentLock(t) ==
  /\ pc[t] \in {"intent", "unintent"}
  /\ Acquire(t, "intents")
  /\ Goto(t, IF pc[t] = "intent" THEN "intent2" ELSE "unintent2")
  /\ UNCHANGED <<svars, fpos, call, ret, wk, ncalls>>

\* ff.intents.Put(key, blob) and ff.intents.Delete(key), to their Unlock.
IntentBody(t) ==
  /\ pc[t] \in {"intent2", "unintent2"}
  /\ \E r \in {IF pc[t] = "intent2"
               THEN Put(ff.intents[1], call[t].key, ret[t].blob, "none")
               ELSE Delete(ff.intents[1], call[t].key, FALSE)} :
       /\ ff' = [ff EXCEPT !.intents = <<r.S>>]
       /\ Returns(t, IF r.err = NoErr THEN NoErr ELSE Wrap(r.err), ret[t].blob)
       /\ Goto(t, IF r.err # NoErr THEN "unlock"
                  ELSE IF pc[t] = "intent2" THEN "modify2"
                  ELSE IF ff.mirror # <<>> THEN "mirror" ELSE "unlock")
  /\ Release(t, "intents")
  /\ UNCHANGED <<status, ref, gone, last, nops, fpos, call, wk, ncalls>>

\* Modify: ff.delete, ff.put and, when the put fails, the put of the blob.
ModifyBody(t) ==
  /\ pc[t] = "modify2"
  /\ \E d \in {delete(ff, call[t].key, FALSE)} :
       \E p \in {IF d.err # NoErr THEN d ELSE put(d.S, call[t].key, call[t].val, "none")} :
         \E r \in {IF p.err = NoErr \/ p.err = ErrPanic \/ d.err # NoErr THEN p
                   ELSE With(put(p.S, call[t].key, ret[t].blob, "none"), LAMBDA rp :
                          [S |-> rp.S,
                           err |-> IF rp.err = ErrPanic THEN ErrPanic ELSE p.err])} :
           /\ ff' = r.S
           /\ Returns(t, r.err, <<>>)
           /\ Goto(t, IF r.err # NoErr THEN "unlock"
                      ELSE IF ff.opt.UseIntents THEN "unintent"
                      ELSE IF ff.mirror # <<>> THEN "mirror" ELSE "unlock")
  /\ UNCHANGED <<status, ref, gone, last, nops, mutex, fpos, call, wk, ncalls>>

\* The Lock of ff.mirror.Put, ff.mirror.Modify and ff.mirror.Delete.
MirrorLock(t) ==
  /\ pc[t] = "mirror"
  /\ Acquire(t, "mirror")
  /\ Goto(t, "mirror2")
  /\ UNCHANGED <<svars, fpos, call, ret, wk, ncalls>>

\* ff.mirror.Put, ff.mirror.Modify and ff.mirror.Delete, to their Unlock.
MirrorBody(t) ==
  /\ pc[t] = "mirror2"
  /\ \E r \in {CASE call[t].op = "put" ->
                      Put(ff.mirror[1], call[t].key, call[t].val, "none")
                 [] call[t].op = "modify" ->
                      Modify(ff.mirror[1], call[t].key, call[t].val, "none", "none")
                 [] call[t].op = "delete" -> Delete(ff.mirror[1], call[t].key, FALSE)} :
       /\ ff' = [ff EXCEPT !.mirror = <<r.S>>]
       /\ Returns(t, IF r.err = NoErr THEN NoErr ELSE Wrap(r.err), <<>>)
  /\ Goto(t, "unlock")
  /\ Release(t, "mirror")
  /\ UNCHANGED <<status, ref, gone, last, nops, fpos, call, wk, ncalls>>

\* ff.mutex.RLock() of Get.
RLock(t) ==
  /\ pc[t] = "rlock"
  /\ RAcquire(t, "ff")
  /\ Goto(t, "get")
  /\ UNCHANGED <<svars, fpos, call, ret, wk, ncalls>>

\* The deferred ff.mutex.RUnlock().
RUnlock(t) ==
  /\ pc[t] = "runlock"
  /\ RRelease(t, "ff")
  /\ Leave(t)
  /\ UNCHANGED <<svars, fpos, ncalls>>

\* The cell of a live key, and whether get reads it from its page.
CellOf(key) == ff.cells[ff.keys[key]]

ReadsPage(key) ==
  /\ key \in DOMAIN ff.keys
  /\ ~Cached(CellOf(key))
  /\ CellOf(key).PageIndex >= 0
  /\ CellOf(key).PageIndex < ff.npages

\* Get from RLock to the Seek of page.Get; all of get when it reads no page.
GetSeek(t) ==
  /\ pc[t] = "get"
  /\ IF ReadsPage(call[t].key)
     THEN /\ fpos' = MapPut(fpos, CellOf(call[t].key).PageIndex, CellOf(call[t].key).Offset)
          /\ Goto(t, "read")
          /\ ret' = ret
     ELSE /\ \E g \in {get(ff, call[t].key, FALSE)} : Returns(t, g.err, g.blob)
          /\ Goto(t, "runlock")
          /\ fpos' = fpos
  /\ UNCHANGED <<svars, mutex, call, wk, ncalls>>

\* The Read of page.Get and the rest of get.  Read moves the position by the
\* bytes it has read.  When the page has been closed since the Seek, by a
\* thread that does not hold the lock, the Read fails.
GetRead(t) ==
  /\ pc[t] = "read"
  /\ IF ReadsPage(call[t].key)
     THEN LET c == CellOf(call[t].key)
              pos == fpos[c.PageIndex]
              left == Len(ff.pfiles[c.PageIndex + 1]) - pos
              n == Max(0, IF c.Used < left THEN c.Used ELSE left)
          IN /\ \E g \in {getAt(ff, call[t].key, FALSE, pos)} : Returns(t, g.err, g.blob)
             /\ fpos' = [fpos EXCEPT ![c.PageIndex] = pos + n]
     ELSE /\ Returns(t, ErrIO, <<>>)
          /\ fpos' = fpos
  /\ Goto(t, "runlock")
  /\ UNCHANGED <<svars, mutex, call, wk, ncalls>>

\* Walk: keys := ff.header.Keys(), in the order of a Go map iteration.
WalkKeys(t) ==
  /\ pc[t] = "walk"
  /\ \E ord \in Orders(HeaderKeys(ff)) :
       wk' = [wk EXCEPT ![t] = [NoWalk EXCEPT !.todo = ord,
                                              !.live = [k \in HeaderKeys(ff) |-> Get(ff, k).blob]]]
  /\ Goto(t, "walkget")
  /\ UNCHANGED <<svars, mutex, fpos, call, ret, ncalls>>

\* Walk: the loop test and ff.get(k, false).
WalkGet(t) ==
  /\ pc[t] = "walkget"
  /\ IF wk[t].todo = <<>>
     THEN /\ Returns(t, NoErr, <<>>)
          /\ Goto(t, "unlock")
          /\ wk' = wk
     ELSE \E g \in {get(ff, Head(wk[t].todo), FALSE)} :
            IF g.err # NoErr
            THEN /\ Returns(t, g.err, <<>>)
                 /\ Goto(t, "unlock")
                 /\ wk' = wk
            ELSE /\ wk' = [wk EXCEPT ![t].data = g.blob]
                 /\ Goto(t, "visit")
                 /\ ret' = ret
  /\ UNCHANGED <<svars, mutex, fpos, call, ncalls>>

\* A Walk whose loop has no break: it goes on after the visitor's false.
WalkVisitDeaf(t) ==
  /\ pc[t] = "visit"
  /\ \E more \in BOOLEAN :
       wk' = [wk EXCEPT ![t].seen = Append(@, <<Head(wk[t].todo), wk[t].data>>),
                        ![t].todo = Tail(@),
                        ![t].stopped = ~more]
  /\ Goto(t, "walkget")
  /\ UNCHANGED <<svars, mutex, fpos, call, ret, ncalls>>

\* Walk: the visitor f is called and answers.
WalkVisit(t) ==
  /\ pc[t] = "visit"
  /\ \E more \in BOOLEAN :
       /\ wk' = [wk EXCEPT ![t].seen = Append(@, <<Head(wk[t].todo), wk[t].data>>),
                           ![t].todo = Tail(@),
                           ![t].stopped = ~more]
       /\ IF more THEN Goto(t, "walkget") /\ ret' = ret
          ELSE Goto(t, "unlock") /\ Returns(t, NoErr, <<>>)
  /\ UNCHANGED <<svars, mutex, fpos, call, ncalls>>

\* Keys: ff.header.Keys().
KeysBody(t) ==
  /\ pc[t] = "keys"
  /\ ret' = [ret EXCEPT ![t] = [err |-> NoErr, blob |-> <<>>, keys |-> HeaderKeys(ff)]]
  /\ Goto(t, "unlock")
  /\ UNCHANGED <<svars, mutex, fpos, call, wk, ncalls>>

\* Close and the Close of Reopen: saveOptions and header.Close.  Close,
\* Reopen and Clear take no lock.
CloseHeader(t) ==
  /\ pc[t] \in {"close", "reopen"}
  /\ ff' = HeaderClose(saveOptions(ff))
  /\ Goto(t, IF pc[t] = "close" THEN "close2" ELSE "reopen2")
  /\ UNCHANGED <<status, ref, gone, last, nops, mutex, fpos, call, ret, wk, ncalls>>

\* Close: stream.Close, mirror.Close and intents.Close.
CloseRest(t) ==
  /\ pc[t] \in {"close2", "reopen2"}
  /\ ff' = Close(ff)
  /\ IF pc[t] = "close2" THEN Leave(t)
     ELSE Goto(t, "load") /\ UNCHANGED <<call, ret, wk>>
  /\ UNCHANGED <<status, ref, gone, last, nops, mutex, fpos, ncalls>>

\* load: header.Open.
LoadHeader(t) ==
  /\ pc[t] = "load"
  /\ \E ord \in Orders(DeletedOnDisk(ff)) :
       \E ho \in {HeaderOpen(ff, ff.opt.CompactHeader, ord)} :
         /\ ff' = ho.S
         /\ Returns(t, ho.err, <<>>)
         /\ IF ho.err # NoErr THEN Leave(t)
            ELSE Goto(t, "len") /\ UNCHANGED <<call, wk>>
  /\ UNCHANGED <<status, ref, gone, last, nops, mutex, fpos, ncalls>>

\* load: ff.Len(), which takes and leaves the read lock, and stream.Open;
\* with intents, the Open of the intents store.
LoadStream(t) ==
  /\ pc[t] = "len"
  /\ CanRLock("ff")
  /\ \E so \in {IF FFLen(ff) > 0 THEN StreamOpen(ff, MaxPage(ff) + 1)
                ELSE [S |-> ff, err |-> NoErr]} :
       /\ ff' = IF so.err # NoErr THEN HeaderClose(so.S)
                ELSE IF ff.opt.UseIntents
                THEN [so.S EXCEPT !.intents =
                                    <<Open(ff.intents[1], IntentsOptions(ff.opt), Nested(<<>>)).S>>]
                ELSE so.S
       /\ IF so.err # NoErr THEN Leave(t)
          ELSE /\ Goto(t, IF ff.opt.UseIntents THEN "restore" ELSE "remirror")
               /\ UNCHANGED <<call, ret, wk>>
  /\ UNCHANGED <<status, ref, gone, last, nops, mutex, fpos, ncalls>>

\* restoreFromIntents: ff.mutex.Lock().
RestoreLock(t) ==
  /\ pc[t] = "restore"
  /\ Acquire(t, "ff")
  /\ Goto(t, "restore2")
  /\ UNCHANGED <<svars, fpos, call, ret, wk, ncalls>>

\* restoreFromIntents, to its Unlock.
RestoreBody(t) ==
  /\ pc[t] = "restore2"
  /\ \E r \in {restoreFromIntents(ff)} :
       /\ ff' = r.S
       /\ IF r.err # NoErr THEN Leave(t)
          ELSE Goto(t, "remirror") /\ UNCHANGED <<call, ret, wk>>
  /\ Release(t, "ff")
  /\ UNCHANGED <<status, ref, gone, last, nops, fpos, ncalls>>

\* Reopen: ff.mirror.Reopen().
ReopenMirror(t) ==
  /\ pc[t] = "remirror"
  /\ IF ff.mirror = <<>> THEN ff' = ff
     ELSE \E ord \in Orders(DeletedOnDisk(ff.mirror[1])) :
            ff' = [ff EXCEPT !.mirror = <<Reopen(ff.mirror[1], Nested(ord)).S>>]
  /\ Leave(t)
  /\ UNCHANGED <<status, ref, gone, last, nops, mutex, fpos, ncalls>>

\* Clear: header.Clear and stream.Clear.
ClearBody(t) ==
  /\ pc[t] = "clear"
  /\ ff' = Clear(ff)
  /\ Leave(t)
  /\ UNCHANGED <<status, ref, gone, last, nops, mutex, fpos, ncalls>>

\* Compact: ff.mutex.RLock(); the deferred RUnlock is RUnlock(t).
CompactRLock(t) ==
  /\ pc[t] = "compact"
  /\ RAcquire(t, "ff")
  /\ Goto(t, "runlock")
  /\ UNCHANGED <<svars, fpos, call, ret, wk, ncalls>>

\* A store with a mirror, with and without intents, opened on a directory
\* that holds the keys "a" and "b".
InitThreads ==
  /\ \E u \in BOOLEAN :
       ff = Put(Put(Open(EmptyStore,
                         [DefaultOptions EXCEPT !.MirrorDir = "mirror", !.UseIntents = u],
                         Nested(<<>>)).S,
                    "a", <<2, 2>>, "none").S,
                "b", <<1>>, "none").S
  /\ status = "open"
  /\ ref = EmptyMap
  /\ gone = {}
  /\ nops = 0
  /\ last = [op |-> "open", err |-> NoErr, was |-> NoCall, journal |-> EmptyMap]
  /\ Quiet

ThreadStep(t) ==
  \/ Lock(t) \/ Unlock(t) \/ PutBody(t)
  \/ ModifyIntent(t) \/ IntentLock(t) \/ IntentBody(t) \/ ModifyBody(t)
  \/ MirrorLock(t) \/ MirrorBody(t)
  \/ RLock(t) \/ RUnlock(t) \/ GetSeek(t) \/ GetRead(t)
  \/ WalkKeys(t) \/ WalkGet(t) \/ WalkVisit(t) \/ KeysBody(t)

\* The functions that C10 names.
NextThreads ==
  \E t \in Threads :
    \/ Begin(t, {"put", "get", "modify", "delete", "walk", "keys"})
    \/ ThreadStep(t)

SpecThreads == InitThreads /\ [][NextThreads]_vars

\* A thread in a call can run unless it waits for a lock that is held.
CanRun(t) ==
  /\ pc[t] # "idle"
  /\ LockWaits(t) # "no" => CanLock(LockWaits(t))
  /\ pc[t] = "rlock" => CanRLock("ff")

\* The places of a thread in a call.
Places ==
  {"idle", "lock", "unlock", "put", "delete", "modify", "intent", "intent2", "modify2",
   "unintent", "unintent2", "mirror", "mirror2", "rlock", "runlock", "get", "read",
   "walk", "walkget", "visit", "keys"}

\* ThreadStep(t) as pc shows it: the steps of t, and no other step, move
\* pc[t] from a place other than idle, and one is possible when CanRun(t).
Runs(t) ==
  /\ CanRun(t)
  /\ \E l \in Places \ {pc[t]} : pc' = [pc EXCEPT ![t] = l]

\* A goroutine that can run does run, and sync.RWMutex hands the lock to a
\* goroutine that waits for it.
SpecThreadsFair == SpecThreads /\ \A t \in Threads : WF_pc(Runs(t))

\* All the functions of the facade.
NextFacade ==
  \E t \in Threads :
    \/ Begin(t, {"put", "get", "modify", "delete", "walk", "keys",
                 "close", "reopen", "clear", "compact"})
    \/ ThreadStep(t)
    \/ CloseHeader(t) \/ CloseRest(t)
    \/ LoadHeader(t) \/ LoadStream(t) \/ RestoreLock(t) \/ RestoreBody(t) \/ ReopenMirror(t)
    \/ ClearBody(t)
    \/ CompactRLock(t)

SpecFacade == InitThreads /\ [][NextFacade]_vars

\* ------------------------------------------------------------------ claims
ValueFits(S, v) == S.opt.MaxPageSize > 0 => Len(v) <= S.opt.MaxPageSize

\* C1: a put of a non-empty key that is not live, with any value that fits
\* a page (the empty value included), succeeds, and a following get returns
\* exactly that value; after a reopen the get still returns it.
C1_Roundtrip ==
  /\ (last.op = "put" /\ last.key # "" /\ ~last.live /\ ValueFits(ff, last.val))
       => /\ last.err = NoErr
          /\ status = "open"
          /\ Get(ff, last.key).err = NoErr
          /\ Get(ff, last.key).blob = last.val
  /\ (last.op = "reopen" /\ last.was.op = "put" /\ last.was.err = NoErr)
       => /\ last.err = NoErr
          /\ Get(ff, last.was.key).err = NoErr
          /\ Get(ff, last.was.key).blob = last.was.val

\* C2: the store agrees with the plain map fed with the successful
\* mutations: get returns the value of the last successful put or modify
\* of a live key, fails with ErrKeyNotFound for a key that is not live, and
\* keys() is the key set of the map; reopens in between change nothing.
C2_AgreesWithMap ==
  status = "open" =>
    /\ HeaderKeys(ff) = DOMAIN ref
    /\ \A k \in Keys :
         LET g == Get(ff, k)
         IN IF k \in DOMAIN ref
            THEN g.err = NoErr /\ g.blob = ref[k]
            ELSE g.err = ErrKeyNotFound

\* C3: a put of a live key fails with ErrDuplicateKey and leaves the stored
\* value as it was; once a delete of the key has succeeded, a put of the key
\* (not live, value fitting a page) succeeds and get returns the new value.
C3_DuplicateThenReput ==
  /\ (last.op = "put" /\ last.live)
       => /\ last.err = ErrDuplicateKey
          /\ status = "open"
          /\ <<Get(ff, last.key).blob>> = last.pre
  /\ (last.op = "put" /\ ~last.live /\ last.key \in gone /\ ValueFits(ff, last.val))
       => /\ last.err = NoErr
          /\ status = "open"
          /\ Get(ff, last.key).err = NoErr
          /\ Get(ff, last.key).blob = last.val

\* C4: with a mirror, the mirror holds exactly the (key, value) pairs of the
\* outer store after every put, modify and delete, for every option
\* setting, UseIntents included.
C4_MirrorHoldsSamePairs ==
  (status = "open" /\ ff.mirror # <<>>) => Pairs(ff.mirror[1]) = Pairs(ff)

\* C5: with UseIntents, when the process stops inside modify(K, V') after
\* the inner delete and before the inner put, the next open succeeds and
\* get(K) returns V' or the value K had before the modify.
C5_StopBetweenDeleteAndPut ==
  (last.op = "open" /\ last.was.op = "modify" /\ last.was.stop = "afterDelete")
    => /\ last.err = NoErr
       /\ status = "open"
       /\ Get(ff, last.was.key).err = NoErr
       /\ <<Get(ff, last.was.key).blob>> \in {<<last.was.val>>, last.was.pre}

\* C6: with UseIntents, an open re-applies every key of the intents
\* directory as a put that overwrites whatever the store holds for the key:
\* the open succeeds, the key is live with the journalled value, and the
\* intents directory is empty afterwards.
C6_IntentsReplayed ==
  (last.op = "open" /\ ff.opt.UseIntents /\ DOMAIN last.journal # {})
    => /\ last.err = NoErr
       /\ status = "open"
       /\ \A k \in DOMAIN last.journal :
            LET g == Get(ff, k) IN <<g.err, g.blob>> = last.journal[k]
       /\ HeaderKeys(ff.intents[1]) = {}

\* C7: a thread that is inside put, modify, delete, reopen, close, clear or
\* compact holds the write lock of the store, so that no other thread is
\* inside the store with it.
C7_WritersHoldTheLock ==
  \A t \in Threads :
    (/\ call[t].op \in {"put", "modify", "delete", "reopen", "close", "clear", "compact"}
     /\ pc[t] \notin {"idle", "lock"})
      => /\ mutex["ff"].w = t
         /\ \A u \in Threads \ {t} : pc[u] \in {"idle", "lock", "rlock", "restore", "compact"}

\* C8: get holds only the read lock, several gets are inside the store at
\* the same time, and a get that overlaps other gets returns what a get alone
\* returns: the gets change nothing that another get reads.
C8_OverlappingGets ==
  \A t \in Threads :
    (call[t].op = "get" /\ pc[t] \in {"get", "read", "runlock"})
      => /\ mutex["ff"].w = NoThread
         /\ t \in mutex["ff"].r
         /\ pc[t] = "runlock" =>
              /\ ret[t].err = Get(ff, call[t].key).err
              /\ ret[t].blob = Get(ff, call[t].key).blob

\* The keys that a walk has visited.
Visited(t) == {wk[t].seen[i][1] : i \in 1..Len(wk[t].seen)}

\* C9: walk holds the write lock from its start to its end, the calls of the
\* visitor included; it calls the visitor once for each key that was live
\* when it began, with the value of the key, and calls it no more once it
\* has answered false; the store holds the same pairs from the start of the
\* walk to its end.
C9_Walk ==
  \A t \in Threads :
    (call[t].op = "walk" /\ pc[t] \in {"walk", "walkget", "visit", "unlock"})
      => /\ mutex["ff"].w = t
         /\ pc[t] # "walk" =>
              /\ [k \in HeaderKeys(ff) |-> Get(ff, k).blob] = wk[t].live
              /\ Cardinality(Visited(t)) = Len(wk[t].seen)
              /\ \A i \in 1..Len(wk[t].seen) :
                   /\ wk[t].seen[i][1] \in DOMAIN wk[t].live
                   /\ wk[t].seen[i][2] = wk[t].live[wk[t].seen[i][1]]
              /\ wk[t].stopped => pc[t] = "unlock"
              /\ (pc[t] = "unlock" /\ ~wk[t].stopped /\ ret[t].err = NoErr)
                   => Visited(t) = DOMAIN wk[t].live

\* A walk has visited both keys, none of them twice, and is about to return
\* while the other thread waits for the lock with a put, a modify or a
\* delete.
C9_WalkDoneWhileWriterWaits ==
  \E t \in Threads, u \in Threads :
    /\ t # u
    /\ call[t].op = "walk" /\ pc[t] = "unlock"
    /\ Len(wk[t].seen) = 2 /\ ~wk[t].stopped
    /\ call[u].op \in {"put", "modify", "delete"} /\ pc[u] = "lock"

\* The locks are taken in the order store, mirror and store, intents, and a
\* thread that waits for the lock of the store holds no lock.
LockOrder ==
  \A t \in Threads :
    /\ (mutex["mirror"].w = t \/ mutex["intents"].w = t) => mutex["ff"].w = t
    /\ ~(mutex["mirror"].w = t /\ mutex["intents"].w = t)
    /\ LockWaits(t) = "ff" => \A m \in DOMAIN mutex : mutex[m].w # t /\ t \notin mutex[m].r

\* C10: the locks are only taken in the order store then mirror and store
\* then intents, and with threads that call put, get, modify, delete, walk
\* and keys every call ends: no thread waits for a lock for ever.
C10_EveryCallReturns ==
  /\ []LockOrder
  /\ \A t \in Threads : (pc[t] # "idle") ~> (pc[t] = "idle")

\* A modify holds the lock of the store and the lock of the intents store
\* while the other thread waits for the lock of the store, and that thread
\* has already ended a call.
C10_NestedLockWhileWaiting ==
  \E t \in Threads, u \in Threads :
    /\ t # u
    /\ mutex["ff"].w = t /\ mutex["intents"].w = t
    /\ LockWaits(u) = "ff"
    /\ ncalls[u] = MaxCalls

\* C11: when Put(K, V) fails at page allocation, at the blob write or at the
\* header update, K is not live afterwards; if the cell selected for it was
\* a new one, it is no longer in the pot and maxid is what it was before
\* the call; if it was recycled from the bin, it is not in the cache queue,
\* its CRC32 is 0 and it is in the bin again.
C11_FailedPutUndone ==
  [][(nops' = nops + 1 /\ last'.op = "put" /\ last'.stop \in PutFails) =>
       With(Select(ff, ~ff.opt.Immutable, Len(last'.val)).c, LAMBDA a :
         /\ last'.err = ErrIO
         /\ last'.key \notin DOMAIN ff'.keys
         /\ IF a \notin DOMAIN ff.cells
            THEN /\ ff'.cells[a].CellState = StateNormal
                 /\ ff'.cells[a].CellID \notin DOMAIN ff'.pot
                 /\ ff'.pot = ff.pot
                 /\ ff'.maxid = ff.maxid
            ELSE /\ \A n \in 1..Len(ff'.memq) : ff'.memq[n] # a
                 /\ ff'.cells[a].CRC32 = 0
                 /\ \E n \in 1..Len(ff'.bin) : ff'.bin[n] = a)]_vars

\* A put has failed at its blob write after it had recycled a cell, which
\* is in the bin again.
C11_RecycledCellBackInBin ==
  /\ status = "open"
  /\ last.op = "put"
  /\ last.stop = "write"
  /\ \E n \in 1..Len(ff.bin) : ff.cells[ff.bin[n]].CellState = StateReused

\* C12: when the inner put of Modify(K, V) has failed and the put of the
\* pre-image that follows it has succeeded (K, which the delete had removed,
\* is live again), Modify has returned the error of the inner put and K has
\* the value it had before the call, with and without intents.
C12_ModifyRestoresPreImage ==
  (/\ status = "open"
   /\ last.op = "modify"
   /\ last.stop \in PutFails
   /\ last.pre # <<>>
   /\ last.key \in DOMAIN ff.keys) =>
    /\ last.err = ErrIO
    /\ With(Get(ff, last.key), LAMBDA g : g.err = NoErr /\ g.blob = last.pre[1])

\* The result of the call op(key, val) on the store S, where fail names the
\* I/O call that fails in it.
Outcome(S, op, key, val, fail) ==
  CASE op = "put" -> Put(S, key, val, fail)
    [] op = "modify" -> Modify(S, key, val, fail, "none")
    [] op = "delete" -> Delete(S, key, FALSE)

\* C13: when Put, Modify or Delete has changed the outer store and the same
\* call on the mirror returns an error, the call returns an ErrFlatFile
\* error and the outer store is left as the call without a mirror leaves
\* it: the mutation is kept.
C13_MirrorErrorKeepsMutation ==
  [][(/\ nops' = nops + 1
      /\ last'.op \in {"put", "modify", "delete"}
      /\ ff.mirror # <<>>) =>
       With(Outcome([ff EXCEPT !.mirror = <<>>], last'.op, last'.key, last'.val, "none"),
            LAMBDA outer :
         With(Outcome(ff.mirror[1], last'.op, last'.key, last'.val, MirrorFail(last'.stop)),
              LAMBDA m :
           (outer.err = NoErr /\ m.err \notin {NoErr, ErrPanic}) =>
             /\ last'.err = ErrIO
             /\ status' = "open"
             /\ [ff' EXCEPT !.mirror = <<>>] = outer.S
             /\ IF last'.op = "delete" THEN last'.key \notin DOMAIN ff'.keys
                ELSE Get(ff', last'.key) = [S |-> ff', blob |-> last'.val, err |-> NoErr]))]_vars

\* A delete has removed a live key from the outer store and returned the
\* error of the mirror, which did not hold the key.
C13_DeleteKeptMirrorFailed ==
  /\ status = "open"
  /\ last.op = "delete"
  /\ last.live
  /\ last.err = ErrIO
  /\ last.key \notin DOMAIN ff.keys
  /\ ff.mirror # <<>>

\* C14: in a store opened with Immutable, Modify and Delete return
\* ErrImmutableFile for every key (empty, live or not) and leave the store
\* as it is; Put and Get do what they do in a mutable store: the store
\* agrees with the plain map fed with the successful puts.
C14_Immutable ==
  [][ff.opt.Immutable =>
       /\ (nops' = nops + 1 /\ last'.op \in {"modify", "delete"}) =>
            (last'.err = ErrImmutableFile /\ ff' = ff)
       /\ (nops' = nops + 1 /\ last'.op = "put" /\ last'.key # "" /\ ~last'.live
              /\ ValueFits(ff, last'.val)) => last'.err = NoErr
       /\ status' = "open"
       /\ HeaderKeys(ff') = DOMAIN ref'
       /\ \A k \in Keys :
            Get(ff', k) = IF k \in DOMAIN ref' THEN [S |-> ff', blob |-> ref'[k], err |-> NoErr]
                          ELSE [S |-> ff', blob |-> <<>>, err |-> ErrKeyNotFound]]_vars

\* A delete of a live key has been refused by an immutable store, which
\* still holds the key.
C14_DeleteRefused ==
  /\ ff.opt.Immutable
  /\ last.op = "delete"
  /\ last.live
  /\ last.err = ErrImmutableFile
  /\ last.key \in DOMAIN ff.keys

\* The key k is live with value ref[k] and its page file holds other bytes
\* for it.
Patched(k) ==
  /\ status = "open"
  /\ ff.opt.CRC
  /\ k \in DOMAIN ff.keys
  /\ k \in DOMAIN ref
  /\ OnPage(ff, ff.keys[k]) # ref[k]

C16_BestFit ==
  last.op = "recycle" =>
    LET fit == {a \in last.was : ff.cells[a].Allocated >= last.min}
    IN IF fit = {}
       THEN last.c = 0 /\ ff.bin = last.bin
       ELSE /\ last.c \in fit
            /\ \A a \in fit : ff.cells[last.c].Allocated <= ff.cells[a].Allocated
            /\ \A n \in 1..Len(ff.bin) : ff.bin[n] # last.c
            /\ ff.cells[last.c].CellID \notin DOMAIN ff.binids

\* C17: with a positive MaxPageSize, for every cell in the pot Offset +
\* Allocated is at most MaxPageSize after every call: no blob goes past the
\* end of its page.
C17_CellsWithinPage ==
  ff.opt.MaxPageSize > 0 =>
    \A i \in DOMAIN ff.pot : BlobEndPos(ff.cells[ff.pot[i]]) <= ff.opt.MaxPageSize

\* A cell that did not fit the first page has been put at the start of a
\* second page.
C17_CellOnSecondPage ==
  /\ ff.opt.MaxPageSize > 0
  /\ \E i \in DOMAIN ff.pot, j \in DOMAIN ff.pot :
       /\ ff.cells[ff.pot[i]].PageIndex = 0
       /\ ff.cells[ff.pot[j]].PageIndex = 1
       /\ ff.cells[ff.pot[j]].Offset = 0
       /\ BlobEndPos(ff.cells[ff.pot[i]]) + ff.cells[ff.pot[j]].Allocated >= ff.opt.MaxPageSize

\* C18: the CellID and the Allocated of a cell never change once the cell
\* is made, neither in memory nor, across a reopen, for the cell of the same
\* id read back from the header file; Used <= Allocated in every state; and
\* after a put or modify the cell of the key has Used equal to the length
\* of the value, a cell that existed before being a recycled one.
C18_AllocationFixed ==
  [][
      /\ last'.op \notin {"open", "reopen"} /\ status' = "open" =>
          \A a \in DOMAIN ff.cells :
            /\ a \in DOMAIN ff'.cells
            /\ ff'.cells[a].CellID = ff.cells[a].CellID
            /\ ff'.cells[a].Allocated = ff.cells[a].Allocated
      /\ last'.op = "reopen" /\ status' = "open" =>
          \A i \in DOMAIN ff.pot :
            /\ i \in DOMAIN ff'.pot
            /\ ff'.cells[ff'.pot[i]].CellID = i
            /\ ff'.cells[ff'.pot[i]].Allocated = ff.cells[ff.pot[i]].Allocated
      /\ \A a \in DOMAIN ff'.cells : ff'.cells[a].Used <= ff'.cells[a].Allocated
      /\ (/\ nops' = nops + 1
          /\ last'.op \in {"put", "modify"}
          /\ last'.err = NoErr) =>
           /\ ff'.cells[ff'.keys[last'.key]].Used = Len(last'.val)
           /\ ff'.keys[last'.key] \in DOMAIN ff.cells =>
                ff'.cells[ff'.keys[last'.key]].CellState = StateReused]_vars

\* A put has recycled a Deleted cell that is larger than its value.
C18_ReusedLargerCell ==
  /\ status = "open"
  /\ last.op = "put"
  /\ last.err = NoErr
  /\ ff.cells[ff.keys[last.key]].CellState = StateReused
  /\ ff.cells[ff.keys[last.key]].Used < ff.cells[ff.keys[last.key]].Allocated

\* The sum of Used over the first n cells of the cache queue.
RECURSIVE MemTotal(_, _)
MemTotal(S, n) == IF n = 0 THEN 0 ELSE MemTotal(S, n - 1) + S.cells[S.memq[n]].Used

\* The length of the longest value there is to put: no payload put so far
\* is longer.
LongestVal == CHOOSE n \in {Len(v) : v \in Vals} : \A v \in Vals : Len(v) <= n

\* C19: with MaxCacheMemory = M > 0 and CachedWrites, after every put the
\* sum of Used over the cached cells is at most M plus the largest payload
\* length.
C19_CacheBound ==
  (status = "open" /\ ff.opt.MaxCacheMemory > 0 /\ ff.opt.CachedWrites) =>
    MemTotal(ff, Len(ff.memq)) <= ff.opt.MaxCacheMemory + LongestVal

\* The last record of the cell id i in the header records F.
LastRecord(F, i) ==
  F[CHOOSE n \in DOMAIN F : F[n].CellID = i /\ \A m \in DOMAIN F : F[m].CellID = i => m <= n]

\* What header.load leaves of the header records F in the store S: one cell
\* per cell id of F, as the last record of that id describes it; with
\* CompactHeader the header file holds the magic and exactly one record per
\* cell id of the pot, that last record; without CompactHeader the file
\* keeps all its records, several per id included.
Canonical(F, S) ==
  /\ S.hmagic = HdrMagic
  /\ DOMAIN S.pot = {F[n].CellID : n \in DOMAIN F}
  /\ \A i \in DOMAIN S.pot : CellRecord(S.cells[S.pot[i]]) = LastRecord(F, i)
  /\ IF S.opt.CompactHeader
     THEN /\ Len(S.hrecs) = Cardinality(DOMAIN S.pot)
          /\ \A i \in DOMAIN S.pot : \E n \in DOMAIN S.hrecs : S.hrecs[n] = LastRecord(F, i)
     ELSE S.hrecs = F

\* C20: right after an open or reopen that succeeds, the pot holds one cell
\* per cell id of the header file in its latest state, and the header file
\* holds, with CompactHeader, the magic and exactly one record per cell id
\* of the pot, and without it all its records.
C20_HeaderAfterOpen ==
  [][(last'.op \in {"open", "reopen"} /\ last'.err = NoErr) =>
       Canonical(Close(ff).hrecs, ff')]_vars

\* C20 for an open that finds no journalled modify to replay: a replayed
\* put comes after header.load and adds a cell or a record.
C20_HeaderAfterLoad ==
  [][(last'.op \in {"open", "reopen"} /\ last'.err = NoErr /\ DOMAIN last'.journal = {}) =>
       Canonical(Close(ff).hrecs, ff')]_vars

\* A reopen with CompactHeader has read a header file that held two records
\* for a cell, put and then deleted, and has left one record per cell.
C20_CompactedAfterDelete ==
  /\ status = "open"
  /\ last.op = "reopen"
  /\ last.err = NoErr
  /\ ff.opt.CompactHeader
  /\ ff.opt.PersistentHeader
  /\ \E i \in DOMAIN ff.pot : ff.cells[ff.pot[i]].CellState = StateDeleted
  /\ Len(ff.hrecs) = Cardinality(DOMAIN ff.pot)
\* C21: an open of a directory whose header file exists and does not begin
\* with the signature F1 47 F1 13 fails, and leaves the first 4 bytes of
\* the file as they were: the signature is written to a new file only.
C21_ForeignHeaderRejected ==
  (/\ last.op = "open"
   /\ "magic" \in DOMAIN last
   /\ last.magic \notin {<<>>, HdrMagic}) =>
    /\ last.err # NoErr
    /\ ff.hmagic = last.magic
\* The files of a directory and of the directories nested in it, the
\* options files left out.
RECURSIVE SansOptions(_)
SansOptions(D) ==
  [D EXCEPT !.ofile = <<>>,
            !.mirror = IF @ = <<>> THEN <<>> ELSE <<SansOptions(@[1])>>,
            !.intents = IF @ = <<>> THEN <<>> ELSE <<SansOptions(@[1])>>]

\* C22: Close returns an error if and only if one of its calls has failed
\* (saveOptions, header.Close, stream.Close, mirror.Close, intents.Close),
\* and whichever of them fail it makes them all: the header is flushed and
\* the files are left as a Close without failures leaves them, but for the
\* options files that could not be written.
C22_CloseReportsEveryFailure ==
  [][last'.op = "close" =>
       /\ last'.err # NoErr <=> last'.fails # {}
       /\ SansOptions(ff') = SansOptions(Disk(Close(ff)))
       /\ "options" \notin last'.fails => ff'.ofile = Close(ff).ofile]_vars
\* The error for which op(key, val) is rejected by the store S for its
\* arguments, NoErr when it is not.
Rejection(S, op, key, val) ==
  LET big == S.opt.MaxPageSize > 0 /\ Len(val) > S.opt.MaxPageSize
  IN CASE op = "put" ->
            IF key = "" THEN ErrInvalidKey
            ELSE IF key \in HeaderKeys(S) THEN ErrDuplicateKey
            ELSE IF big THEN ErrBlobTooBig ELSE NoErr
       [] op = "get" ->
            IF key = "" THEN ErrInvalidKey
            ELSE IF key \notin HeaderKeys(S) THEN ErrKeyNotFound ELSE NoErr
       [] op \in {"modify", "delete"} ->
            IF S.opt.Immutable THEN ErrImmutableFile
            ELSE IF key = "" THEN ErrInvalidKey
            ELSE IF key \notin HeaderKeys(S) THEN ErrKeyNotFound
            ELSE IF op = "modify" /\ big THEN ErrBlobTooBig ELSE NoErr
       [] OTHER -> NoErr

Rejections ==
  {ErrInvalidKey, ErrDuplicateKey, ErrKeyNotFound, ErrBlobTooBig, ErrImmutableFile}

\* C23: put is rejected with InvalidKey, else DuplicateKey, else
\* BlobTooBig; get with InvalidKey, else KeyNotFound; delete and modify with
\* Immutable, else InvalidKey, else KeyNotFound, and modify then with
\* BlobTooBig; a call that is rejected leaves the whole store, its mirror
\* included, as it was, and a call that is not rejected returns none of
\* these errors.
C23_RejectedCallsChangeNothing ==
  [][last'.op \in {"put", "get", "modify", "delete"} =>
       With(Rejection(ff, last'.op, last'.key, last'.val), LAMBDA e :
         IF e # NoErr
         THEN last'.err = e /\ ff' = ff /\ status' = "open"
         ELSE last'.err \notin Rejections)]_vars

\* A modify of a live key with a value longer than a page has been rejected
\* by a store that has a mirror, cached cells and a cell in the bin.
C23_ModifyTooBig ==
  /\ last.op = "modify"
  /\ last.live
  /\ last.err = ErrBlobTooBig
  /\ ff.mirror # <<>>
  /\ ff.bin # <<>>
\* The byte at position i (from 1) of a file, 0 past its end.
ByteAt(f, i) == IF i <= Len(f) THEN f[i] ELSE 0

\* C24: a put, modify or delete of K leaves every other live key live, and
\* Get returns for it what it returned before the call; a put that has
\* recycled a cell has written no byte outside
\* [Offset, Offset + Allocated) of the page of that cell, and none in any
\* other page.
C24_OtherKeysUntouched ==
  [][(/\ nops' = nops + 1
      /\ last'.op \in {"put", "modify", "delete"}
      /\ status' = "open") =>
       /\ \A k \in HeaderKeys(ff) \ {last'.key} :
            /\ k \in HeaderKeys(ff')
            /\ Get(ff', k).err = Get(ff, k).err
            /\ Get(ff', k).blob = Get(ff, k).blob
       /\ (/\ last'.op = "put"
           /\ last'.err = NoErr
           /\ ff'.keys[last'.key] \in DOMAIN ff.cells) =>
            With(ff'.cells[ff'.keys[last'.key]], LAMBDA c :
              \A p \in 1..Len(ff'.pfiles) :
                \A n \in 1..Len(ff'.pfiles[p]) :
                  (p # c.PageIndex + 1 \/ n <= c.Offset \/ n > c.Offset + c.Allocated)
                    => /\ p <= Len(ff.pfiles)
                       /\ ff'.pfiles[p][n] = ByteAt(ff.pfiles[p], n))]_vars
\* C25: with MaxPageSize = 1024 and PreallocatePages, after ten puts of
\* 128-byte values into an empty store there is exactly one page file, the
\* one with index 0, and its length is at least 1024.
C25_OnePageFile ==
  (last.op = "put" /\ FFLen(ff) = 10) =>
    /\ Len(ff.pfiles) = 1
    /\ Len(ff.pfiles[1]) >= 1024

\* C25 as the code has it: the ten values, 1280 bytes, do not fit a page of
\* 1024 bytes; there are two page files, with index 0 and 1, each of length
\* at least 1024, both open, and every value is read back.
C25_TwoPageFiles ==
  (last.op = "put" /\ FFLen(ff) = 10) =>
    /\ Len(ff.pfiles) = 2
    /\ ff.npages = 2
    /\ \A p \in 1..2 : Len(ff.pfiles[p]) >= 1024
    /\ \A k \in DOMAIN ref : Get(ff, k).err = NoErr /\ Get(ff, k).blob = ref[k]

\* Ten 128-byte values have been put, the last one on the second page.
C25_TenValuesPut ==
  /\ last.op = "put"
  /\ last.err = NoErr
  /\ FFLen(ff) = 10
  /\ Len(last.val) = BlobLen
  /\ ff.cells[ff.keys[last.key]].PageIndex = 1
\* C26: the mirror of a store, which is opened as a utility store with a
\* copy of the options of the store (MirrorDir and UseIntents included),
\* has no mirror and no intents store, and a Modify of the store that has
\* changed the store does to the mirror what a delete followed by a put
\* does: no intents store is read or written by the mirror.
C26_UtilityStoreDoesNotNest ==
  [][(status = "open" /\ ff.mirror # <<>>) =>
       /\ ff.mirror[1].opt.utility
       /\ ff.mirror[1].mirror = <<>>
       /\ ff.mirror[1].intents = <<>>
       /\ (/\ nops' = nops + 1
           /\ last'.op = "modify"
           /\ Modify([ff EXCEPT !.mirror = <<>>], last'.key, last'.val, "none", "none").err = NoErr
           /\ last'.key \in HeaderKeys(ff.mirror[1])) =>
            /\ status' = "open"
            /\ last'.err = NoErr
            /\ ff'.mirror[1] =
                 put(delete(ff.mirror[1], last'.key, FALSE).S, last'.key, last'.val, "none").S]_vars
\* C27: an open of a directory that holds an options file uses the options
\* saved in it and not those passed to Open: the store has the saved
\* options, a mirror exactly if they name one, and after a Close every key
\* is read back with its value whatever options are passed; an open of a
\* directory without options file uses the options passed.
C27_SavedOptionsWin ==
  (last.op = "open" /\ "passed" \in DOMAIN last) =>
    /\ (last.sidecar # <<>> /\ last.err = NoErr) => ff.opt = last.sidecar[1]
    /\ (last.sidecar # <<>> /\ last.was.op = "close") =>
         /\ last.err = NoErr
         /\ status = "open"
         /\ Pairs(ff) = last.was.pairs
    /\ (last.sidecar = <<>> /\ last.err = NoErr) => ff.opt = last.passed
    /\ last.err = NoErr => (ff.mirror # <<>> <=> ff.opt.MirrorDir # "")

\* A store written with pages of 3 bytes and no persistent header has been
\* closed and opened again with the default options, and holds its key.
C27_OpenedWithOtherOptions ==
  /\ last.op = "open"
  /\ "passed" \in DOMAIN last
  /\ last.err = NoErr
  /\ last.passed = DefaultOptions
  /\ last.sidecar # <<>>
  /\ ff.opt.MaxPageSize = 3
  /\ ~ff.opt.PersistentHeader
  /\ last.was.op = "close"
  /\ HeaderKeys(ff) # {}

\* C28: a window made with (offset 5, size 5) over "abcdefghijklmno" reads
\* "fghij" with a first Read of five bytes; a Seek whose target (offset from
\* the start of the window for SET, from where the window is for CUR, from
\* its end for END) lies outside [0, size] fails; a Read returns bytes of the
\* window only, at most those left in it, and a Read made with the file at
\* the end of the window returns EOF.
C28_WindowBounds ==
  LET at == last.at - ref.offset
      target == CASE last.whence = 0 -> last.offset
                  [] last.whence = 1 -> at + last.offset
                  [] OTHER -> ref.size + last.offset
  IN /\ (last.op = "read" /\ nops = 1 /\ ref = [offset |-> 5, size |-> 5] /\ last.len = 5) =>
          last.data = <<"f", "g", "h", "i", "j">> /\ last.err = NoErr
     /\ (last.op = "seek" /\ (target < 0 \/ target > ref.size)) => last.err # NoErr
     /\ (last.op = "read" /\ last.n > 0) => at >= 0 /\ at + last.n <= ref.size
     /\ (last.op = "read" /\ at >= ref.size /\ last.len > 0) => last.err = ErrEOF

\* C29: while the store is open, after every call, each cell of the pot is
\* either in the key index under its own non-empty key or in the sequence of
\* the bin, never in both and never in neither, and it is in the bin exactly
\* when its state is Deleted.
InKeys(S, a) ==
  LET k == S.cells[a].key
  IN k # "" /\ k \in DOMAIN S.keys /\ S.keys[k] = a

InBin(S, a) == \E n \in 1..Len(S.bin) : S.bin[n] = a

C29_KeysOrBin ==
  status = "open" =>
    \A id \in DOMAIN ff.pot :
      /\ InKeys(ff, ff.pot[id]) # InBin(ff, ff.pot[id])
      /\ InBin(ff, ff.pot[id]) <=> ff.cells[ff.pot[id]].CellState = StateDeleted

\* C30: while the store is open, after every call, every cell in the queue
\* of mem is live (in the key index under its non-empty key, not Deleted),
\* the key lookup of mem has exactly one entry per queued cell, a cell of the
\* pot has bytes in its cache only if it is in the queue, and the size of mem
\* is the sum of Used over the queued cells.
Queued(S) == {S.memq[n] : n \in 1..Len(S.memq)}

C30_QueuedCellsLive ==
  status = "open" =>
    \A a \in Queued(ff) : InKeys(ff, a) /\ ff.cells[a].CellState # StateDeleted

C30_OneEntryPerQueuedCell ==
  status = "open" =>
    /\ Cardinality(Queued(ff)) = Len(ff.memq)
    /\ Cardinality(DOMAIN ff.memkeys) = Len(ff.memq)
    /\ \A a \in Queued(ff) :
         ff.cells[a].key \in DOMAIN ff.memkeys /\ ff.memkeys[ff.cells[a].key] = a

C30_CachedOnlyIfQueued ==
  status = "open" =>
    \A id \in DOMAIN ff.pot :
      ff.cells[ff.pot[id]].cache \notin {<<>>, <<<<>>>>} => ff.pot[id] \in Queued(ff)

C30_SizeIsSumOfUsed ==
  status = "open" => ff.memsize = MemTotal(ff, Len(ff.memq))

C30_Mem ==
  /\ C30_QueuedCellsLive
  /\ C30_OneEntryPerQueuedCell
  /\ C30_CachedOnlyIfQueued
  /\ C30_SizeIsSumOfUsed

\* C31: m.Push(c, max) of a cell whose key is cached moves the cached entry
\* to the back of the queue and changes nothing else; otherwise cells leave
\* the front of the queue, oldest first, exactly while size + c.Used > max
\* and the queue is not empty, each losing its cache and its key lookup and
\* taking its Used off the size, and then c is appended and the size grows
\* by c.Used.
RECURSIVE EvictWhileOver(_, _, _)
EvictWhileOver(S, used, max) ==
  IF Len(S.memq) = 0 \/ ~(S.memsize + used > max) THEN S
  ELSE EvictWhileOver([S EXCEPT !.memq = Tail(@),
                                !.memkeys = MapDel(@, S.cells[Head(S.memq)].key),
                                !.memsize = @ - S.cells[Head(S.memq)].Used,
                                !.cells[Head(S.memq)].cache = <<>>],
                      used, max)

PushAsStated(S, a, max) ==
  IF S.cells[a].key \in DOMAIN S.memkeys
  THEN [S EXCEPT !.memq = Append(SelectSeq(@, LAMBDA e : e # S.memkeys[S.cells[a].key]),
                                 S.memkeys[S.cells[a].key])]
  ELSE With(EvictWhileOver(S, S.cells[a].Used, max), LAMBDA T :
         [T EXCEPT !.memq = Append(@, a), !.memkeys = MapPut(@, T.cells[a].key, a),
                   !.memsize = @ + T.cells[a].Used])

C31_PushEvictsWhileOver ==
  last.op = "push" => ff = PushAsStated(last.was, last.c, last.max)

\* C32: after a Get of a key that returns its value, on a store that is not
\* a utility store and has MaxCacheMemory > 0, the cell of the key is in the
\* queue of mem and holds the value returned, so that the next Get of the
\* key is served from memory.
C32_GetCachesTheCell ==
  (status = "open" /\ last.op = "get" /\ last.err = NoErr
     /\ ff.opt.MaxCacheMemory > 0 /\ ~ff.opt.utility) =>
    /\ ff.keys[last.key] \in Queued(ff)
    /\ ff.cells[ff.keys[last.key]].cache = <<last.blob>>

\* C33: h.Select(reuse, size), for every size >= 0: when reuse is on and the
\* bin holds a cell with Allocated >= size, a cell of the bin with the
\* smallest such Allocated is returned, in StateReused, with Used = size and
\* its Allocated unchanged; in every other case, the empty bin included, the
\* cell returned is a new cell of the pot in StateNormal with
\* Used = Allocated = size.
Fitting(S, size) == {a \in Queued([memq |-> S.bin]) : S.cells[a].Allocated >= size}

C33_SelectResult ==
  last.op = "select" =>
    IF last.reuse /\ Fitting(last.was, last.size) # {}
    THEN /\ ~last.panic
         /\ last.c \in Fitting(last.was, last.size)
         /\ \A a \in Fitting(last.was, last.size) :
              last.was.cells[last.c].Allocated <= last.was.cells[a].Allocated
         /\ ff.cells[last.c].CellState = StateReused
         /\ ff.cells[last.c].Used = last.size
         /\ ff.cells[last.c].Allocated = last.was.cells[last.c].Allocated
    ELSE /\ ~last.panic
         /\ last.c \notin DOMAIN last.was.cells
         /\ last.c \in DOMAIN ff.cells
         /\ ff.pot[ff.cells[last.c].CellID] = last.c
         /\ ff.cells[last.c].CellState = StateNormal
         /\ ff.cells[last.c].Used = last.size
         /\ ff.cells[last.c].Allocated = last.size

\* C34: over every call that leaves the store open, Reopen included, the
\* state of a cell of the pot either stays what it was or goes from Normal
\* to Deleted, from Deleted to Reused or from Reused to Deleted (two of these
\* in a row for Modify), so that no cell returns to Normal; and a cell that the call has put in the bin, one
\* that was not in it before or whose state the call has changed, is Deleted
\* when the call ends.
StateOf(S, id) == S.cells[S.pot[id]].CellState

BinIDs(S) == {S.cells[S.bin[n]].CellID : n \in 1..Len(S.bin)}

Lifecycle == {<<StateNormal, StateDeleted>>, <<StateDeleted, StateReused>>,
              <<StateReused, StateDeleted>>}

\* Modify is a delete and a put: it may take the cell of its key from Normal
\* to Deleted and on to Reused.
LifecycleOf(op) ==
  IF op = "modify" THEN Lifecycle \cup {<<StateNormal, StateReused>>} ELSE Lifecycle

C34_CellLifecycle ==
  [][(status = "open" /\ status' = "open") =>
       /\ \A id \in DOMAIN ff.pot \cap DOMAIN ff'.pot :
            StateOf(ff, id) # StateOf(ff', id) =>
              <<StateOf(ff, id), StateOf(ff', id)>> \in LifecycleOf(last'.op)
       /\ \A id \in BinIDs(ff') \cap DOMAIN ff'.pot :
            (id \notin BinIDs(ff) \/ id \notin DOMAIN ff.pot \/ StateOf(ff, id) # StateOf(ff', id)) =>
              StateOf(ff', id) = StateDeleted]_vars

Stale(S) ==
  {id \in DOMAIN S.pot :
     \/ \A n \in DOMAIN S.hrecs : S.hrecs[n].CellID # id
     \/ LastRecord(S.hrecs, id) # CellRecord(S.cells[S.pot[id]])}

DirtyRecords(S) == {CellRecord(S.cells[S.dirty[id]]) : id \in DOMAIN S.dirty}

Appended(S, T) == {T.hrecs[n] : n \in (Len(S.hrecs) + 1)..Len(T.hrecs)}

C36_HeaderRecords ==
  [][/\ (status = "open" /\ status' = "open" /\ ff.opt.PersistentHeader
           /\ last'.op \in {"put", "delete"} /\ last'.err = NoErr) =>
          /\ ff'.dirty = EmptyMap
          /\ Len(ff'.hrecs) = Len(ff.hrecs) + 1
          /\ SubSeq(ff'.hrecs, 1, Len(ff.hrecs)) = ff.hrecs
          /\ ff'.hrecs[Len(ff'.hrecs)] =
               CellRecord(ff'.cells[IF last'.op = "put" THEN ff'.keys[last'.key]
                                    ELSE ff.keys[last'.key]])
     /\ (status = "open" /\ status' = "open" /\ ~ff.opt.PersistentHeader
           /\ last'.op \in {"put", "get", "modify", "delete"}) =>
          /\ ff'.hrecs = ff.hrecs
          /\ \A id \in Stale(ff') : id \in DOMAIN ff'.dirty /\ ff'.dirty[id] = ff'.pot[id]
     /\ (status = "open" /\ ~ff.opt.PersistentHeader /\ last'.op = "close") =>
          /\ SubSeq(ff'.hrecs, 1, Len(ff.hrecs)) = ff.hrecs
          /\ Len(ff'.hrecs) = Len(ff.hrecs) + Cardinality(DOMAIN ff.dirty)
          /\ Appended(ff, ff') = DirtyRecords(ff)
          /\ Cardinality(DirtyRecords(ff)) = Cardinality(DOMAIN ff.dirty)
          /\ ff'.dirty = EmptyMap]_vars

C36_ClosedWithTwoDirty ==
  /\ status = "down" /\ last.op = "close"
  /\ ~ff.opt.PersistentHeader
  /\ Len(ff.hrecs) = 2
  /\ \E n \in DOMAIN ff.hrecs : ff.hrecs[n].CellState = StateDeleted

\* C37: while the store is open, after Reopen too, two cells of the pot that
\* are on the same page occupy disjoint byte ranges
\* [Offset, Offset + Allocated).
Overlap(c, d) ==
  /\ c.PageIndex = d.PageIndex
  /\ c.Offset < d.Offset + d.Allocated
  /\ d.Offset < c.Offset + c.Allocated

C37_CellsDisjoint ==
  status = "open" =>
    \A i, j \in DOMAIN ff.pot :
      i # j => ~Overlap(ff.cells[ff.pot[i]], ff.cells[ff.pot[j]])

\* C38: after an Open or a Reopen that succeeds, every cell of the pot, live
\* or Deleted, has a PageIndex below the number of pages the stream has
\* open, also when the store holds Deleted cells and no live key.
C38_PagesOfCellsOpen ==
  (status = "open" /\ last.op \in {"open", "reopen"} /\ last.err = NoErr) =>
    \A id \in DOMAIN ff.pot : ff.cells[ff.pot[id]].PageIndex < ff.npages

\* C39: no Put, after any calls of the facade and failed puts, panics in
\* header.Select: the cell that bin.Recycle returns for the size of the
\* value, the empty cell of an empty bin and the size 0 included, either has
\* Allocated below the size or is in StateDeleted.  Select is the first
\* place where put can panic, so a Put that panics from a state where
\* Select panics for its value has panicked there.
SelectPanics(S, size) ==
  /\ S.hopen /\ ~S.opt.Immutable
  /\ With(BinRecycle(S, size), LAMBDA r :
       LET alloc == IF r.c = 0 THEN 0 ELSE S.cells[r.c].Allocated
           state == IF r.c = 0 THEN StateNormal ELSE S.cells[r.c].CellState
       IN alloc >= size /\ state # StateDeleted)

C39_SelectNeverPanics ==
  [][(status = "open" /\ last'.op = "put" /\ last'.err = ErrPanic) =>
       ~SelectPanics(ff, Len(last'.val))]_vars

\* C40: every byte that a Read of a window made with (offset, size) returns
\* is the byte of the file at offset + p, where p is the position of the
\* window (rsk.ipos) when the Read is made, and 0 <= p < size; and the Read
\* that follows a Seek(k, SET) that succeeded returns the bytes of the file
\* from offset + k on.
C40_ReadsAtWindowPosition ==
  [][(last'.op = "read" /\ nops' = nops + 1) =>
       /\ last'.data = SubSeq(TestData, ref.offset + ff.ipos + 1,
                              ref.offset + ff.ipos + last'.n)
       /\ last'.n > 0 => ff.ipos + last'.n <= ref.size
       /\ (last.op = "seek" /\ last.whence = 0 /\ last.err = NoErr) =>
            last'.data = SubSeq(TestData, ref.offset + last.offset + 1,
                                ref.offset + last.offset + last'.n)]_vars

====
